---- MODULE Spec2Model ----
(***************************************************************************)
(* Liveness and network-activity monitoring of remotely controlled browser *)
(* targets: the NetworkWatchdog request lifecycle tracker                  *)
(* (browser_use/browser/watchdogs/network_watchdog.py) and the listener    *)
(* attachment of the NetworkWatchdog and the CrashWatchdog                 *)
(* (browser_use/browser/watchdogs/crash_watchdog.py).                      *)
(*                                                                         *)
(* Python values are modelled as follows.  An optional value (x | None) is *)
(* a sequence of length at most one: None is << >>, a present value v is   *)
(* <<v>>.  A list is a sequence.  A dict is a function whose DOMAIN is the *)
(* set of keys.  Object identity of a NetworkRequestTracker is the field   *)
(* uid, which no code reads.                                               *)
(***************************************************************************)
EXTENDS Integers, Sequences, FiniteSets, TLC

\* ------------------------------------------------------------------ bounds
\* Largest configured max_stored_requests the model draws.
MaxCap == 2
\* Number of distinct request IDs the protocol notifications carry.
MaxIds == 2
\* Number of request-sent notifications delivered (handler tasks and
\* NetworkRequestTracker objects created) in one behaviour.
MaxRecords == 2
\* Largest reading of the clock.
MaxTime == 2
\* Largest limit passed to get_recent_requests.
MaxLimit == 2
\* Number of targets (tabs) the browser holds.
MaxTargets == 2
\* Number of sessions the session registry creates in one behaviour.
MaxSessions == 2
\* Number of attach_to_target calls started in one behaviour.
MaxAttachCalls == 4
\* Number of crash-recovery tasks spawned in one behaviour.
MaxCrashTasks == 2
\* Number of crash-recovery tasks spawned in one behaviour of SpecCrash.
MaxCrashSpawned == 1
\* Number of events dispatched on the event bus in one behaviour.
MaxEvents == 3
\* Number of BrowserConnectedEvents handled in one behaviour.
MaxConnected == 2
\* Number of BrowserConnectedEvents handled in one behaviour of SpecCrash.
MaxCrashConnected == 1
\* Longest call stack of an initiator.
MaxFrames == 2
\* Most path segments of a request URL.
MaxSegments == 2

\* ------------------------------------------------------- program constants
\* NetworkWatchdog.max_stored_requests: Field(default=200)
DefaultMaxStoredRequests == 200

VARIABLES
    \* NetworkWatchdog configuration and private state
    max_stored_requests,   \* Field max_stored_requests
    active_requests,       \* _active_requests: request id -> tracker
    completed_requests,    \* _completed_requests: list of trackers
    net_cdp_event_tasks,   \* NetworkWatchdog._cdp_event_tasks: tracked task ids
    loop_ready,            \* event loop: request-sent handler tasks scheduled, FIFO
    cleanup_pc,            \* position of a running _cleanup_monitoring
    now,                   \* time.time()
    nextUid,               \* identity of the next tracker / task object
    \* history
    stored,                \* uids passed to _store_completed_request, in call order
    clearedAt,             \* Len(stored) when the completed buffer was last cleared
    sentHandled,           \* request id -> number of request-sent notifications handled
    lastOp,                \* the operation that ran last
    ret,                   \* what the operation that ran last returned
    \* BrowserSession: the session registry
    cdp_session_pool,      \* _cdp_session_pool: target id -> session id
    nextSid,               \* the next fresh session id
    \* the protocol client's listener registry and the commands it has run
    listeners,             \* watchdog -> session id -> notification kind -> handlers registered
    network_enabled,       \* session id -> Network.enable commands completed
    \* both watchdogs
    sessions_with_listeners, \* watchdog -> _sessions_with_listeners
    calls,                 \* attach_to_target calls in flight: call id -> frame
    \* CrashWatchdog private state
    monitoring_task,       \* _monitoring_task: "none", "running" or "done"
    loop_tasks,            \* _monitoring_loop tasks created and not yet done
    crash_cdp_event_tasks, \* CrashWatchdog._cdp_event_tasks
    \* history
    attachStarted,         \* attach_to_target calls started
    attachReturned,        \* watchdog -> target -> attach_to_target calls returned
    lastFire,              \* the notification delivered last and the handlers it ran
    \* a NetworkRequestTracker under classification
    tracker_resource_type,    \* resource_type
    tracker_response_headers, \* response_headers
    classified,            \* the values the classification properties returned
    tracker_url,           \* url
    tracker_initiator,     \* initiator
    tracker_ui_section,    \* ui_section
    tracker_element_text,  \* element_text
    tracker_element_position, \* element_position
    trigger,               \* outcome of the last read of likely_ui_trigger
    correlated,            \* the call that wrote ui_section last, and what it found
    \* the browser and the BrowserSession
    proc,                  \* status of the local browser process
    agent_focus,           \* browser_session.agent_focus: None, or its target_id
    event_bus,             \* events dispatched on the event bus, in order
    disconnected,          \* session ids whose disconnect() has completed
    \* CrashWatchdog coroutines
    start_tasks,           \* _start_monitoring tasks created and not yet run
    loop_pc,               \* position of the _monitoring_loop task
    must_cancel,           \* a cancel() of the loop task is waiting to be delivered
    fut_blocking,          \* the loop task has awaited itself (its blocking flag is left set)
    hc_cdp_session,        \* local cdp_session of _check_browser_health
    hc_pages,              \* page targets the loop of the health check has still to visit
    evict_iter,            \* iterator over the pool's values in the process branch
    loop_stop,             \* frame of a _stop_monitoring run by the loop task
    stop_frame,            \* frame of the _stop_monitoring run by on_BrowserStoppedEvent
    recovery,              \* _on_target_crash_cdp tasks alive: task id -> frame
    nextTask,              \* identity of the next recovery task
    \* history
    connected,             \* BrowserConnectedEvents handled
    hc,                    \* the health check in progress, or the one that ended last
    episodeStart,          \* Len(event_bus) when the running loop task was created
    detected,              \* a check of this loop task has ended after finding the process dead
    lastStop,              \* the _stop_monitoring execution that returned last
    finished               \* the recovery task that ended last

trackerVars == <<max_stored_requests, active_requests, completed_requests,
                 net_cdp_event_tasks, loop_ready, cleanup_pc, now, nextUid,
                 stored, clearedAt, sentHandled, lastOp, ret>>

attachVars == <<cdp_session_pool, nextSid, listeners, network_enabled,
                sessions_with_listeners, calls, monitoring_task, loop_tasks,
                crash_cdp_event_tasks, attachStarted, attachReturned, lastFire>>

\* What an action of the request tracker leaves alone.
restOfAttach == <<cdp_session_pool, nextSid, listeners, network_enabled,
                  calls, monitoring_task, loop_tasks, crash_cdp_event_tasks, attachStarted,
                  attachReturned, lastFire>>

\* The fields of the tracker the correlation reads and writes.
correlateVars == <<tracker_url, tracker_initiator, tracker_ui_section,
                   tracker_element_text, tracker_element_position, trigger,
                   correlated>>

classifyVars == <<tracker_resource_type, tracker_response_headers, classified,
                  correlateVars>>

monVars == <<proc, agent_focus, event_bus, disconnected, start_tasks, loop_pc,
             must_cancel, fut_blocking, hc_cdp_session, hc_pages, evict_iter,
             loop_stop, stop_frame, recovery, nextTask, connected,
             hc, episodeStart, detected, lastStop, finished>>

\* What an action of the request tracker, of attach_to_target, of the
\* classification and of the crash monitoring leaves alone besides the
\* variables it names.
notTracker == <<attachVars, classifyVars, monVars>>
notAttach == <<trackerVars, classifyVars, monVars>>
notClassify == <<trackerVars, attachVars, monVars>>
notMon == <<trackerVars, classifyVars, network_enabled, calls, attachStarted,
            attachReturned, lastFire>>

vars == <<trackerVars, attachVars, classifyVars, monVars>>

\* ------------------------------------------------------------ Python values
None == << >>
Some(v) == <<v>>

\* bool(x) of an optional number: None and 0 are falsy.
Truthy(x) == x # None /\ x[1] # 0

\* seq[start:] with Python's treatment of a negative or too large start.
PySliceFrom(seq, start) ==
    LET n  == Len(seq)
        lo == IF start < 0
              THEN (IF start + n < 0 THEN 0 ELSE start + n)
              ELSE (IF start > n THEN n ELSE start)
    IN  SubSeq(seq, lo + 1, n)

\* dict with key k removed / set.
DictDel(d, k) == [x \in (DOMAIN d) \ {k} |-> d[x]]
DictSet(d, k, v) == [x \in (DOMAIN d) \cup {k} |-> IF x = k THEN v ELSE d[x]]
EmptyDict == [x \in {} |-> None]

\* ------------------------------------------------------- notification inputs
RequestIds == 1 .. MaxIds
\* status of a responseReceived payload's response: absent, or a code.
Statuses == {None, Some(200)}
\* errorText of a loadingFailed payload: absent, empty, or a message.
ErrorTexts == {None, Some(""), Some("net::ERR_FAILED")}
\* encodedDataLength of a loadingFinished payload: absent, zero, or a size.
DataLengths == {None, Some(0), Some(512)}

\* NetworkRequestTracker with the slip of stamping the end time at
\* construction.
NetworkRequestTracker_EndsAtStart(request_id, start_time, uid) ==
    [ request_id      |-> request_id,
      uid             |-> uid,
      start_time      |-> start_time,
      end_time        |-> Some(start_time),
      response_status |-> None,
      failed          |-> FALSE,
      failure_reason  |-> None,
      response_size   |-> None ]

\* ------------------------------------------------------ NetworkRequestTracker
NetworkRequestTracker(request_id, start_time, uid) ==
    [ request_id      |-> request_id,
      uid             |-> uid,
      start_time      |-> start_time,
      end_time        |-> None,
      response_status |-> None,
      failed          |-> FALSE,
      failure_reason  |-> None,
      response_size   |-> None ]

duration(t) ==
    IF Truthy(t.end_time) THEN Some(t.end_time[1] - t.start_time) ELSE None

to_dict(t) ==
    [ request_id      |-> t.request_id,
      start_time      |-> t.start_time,
      end_time        |-> t.end_time,
      duration        |-> duration(t),
      response_status |-> t.response_status,
      failed          |-> t.failed,
      failure_reason  |-> t.failure_reason,
      response_size   |-> t.response_size ]

Op(name, id, hit) == [op |-> name, id |-> id, hit |-> hit]

\* dict.get(key, default) of a key that is absent (None) or present.
DictGet(opt, default) == IF opt = None THEN default ELSE opt[1]

\* ------------------------------------------------------------ NetworkWatchdog
store_completed_request(buf, tracker) ==
    LET appended == Append(buf, tracker)
    IN  IF Len(appended) > max_stored_requests
        THEN PySliceFrom(appended, 0 - max_stored_requests)
        ELSE appended

get_recent_requests(limit) ==
    LET recent == IF completed_requests # << >>
                  THEN PySliceFrom(completed_requests, 0 - limit)
                  ELSE << >>
    IN  [i \in 1 .. Len(recent) |-> to_dict(recent[i])]

\* The requestWillBeSent listener: the handler is scheduled as a tracked task.
RequestWillBeSentEvent(r) ==
    /\ nextUid <= MaxRecords
    /\ loop_ready' = Append(loop_ready, [tid |-> nextUid, request_id |-> r])
    /\ net_cdp_event_tasks' = net_cdp_event_tasks \cup {nextUid}
    /\ nextUid' = nextUid + 1
    /\ lastOp' = Op("request_sent_event", r, TRUE)
    /\ ret' = None
    /\ UNCHANGED <<max_stored_requests, active_requests, completed_requests,
                   cleanup_pc, now, stored, clearedAt, sentHandled>>
    /\ UNCHANGED notTracker

\* The scheduled _on_request_will_be_sent task that is first in the loop runs;
\* its done callback discards it from the tracked set.
OnRequestWillBeSent ==
    /\ loop_ready # << >>
    /\ LET task    == Head(loop_ready)
           tracker == NetworkRequestTracker(task.request_id, now, task.tid)
       IN  /\ active_requests' = DictSet(active_requests, task.request_id, tracker)
           /\ net_cdp_event_tasks' = net_cdp_event_tasks \ {task.tid}
           /\ sentHandled' = [sentHandled EXCEPT ![task.request_id] = @ + 1]
           /\ lastOp' = Op("request_sent", task.request_id, TRUE)
    /\ loop_ready' = Tail(loop_ready)
    /\ ret' = None
    /\ UNCHANGED <<max_stored_requests, completed_requests, cleanup_pc, now,
                   nextUid, stored, clearedAt>>
    /\ UNCHANGED notTracker

\* OnResponseReceived with the slip of creating a record for an unknown id.
OnResponseReceived_Upsert(r, status) ==
    /\ active_requests' =
           DictSet(active_requests, r,
                   [(IF r \in DOMAIN active_requests
                     THEN active_requests[r]
                     ELSE NetworkRequestTracker(r, now, 0))
                    EXCEPT !.response_status = status])
    /\ lastOp' = Op("response_received", r, r \in DOMAIN active_requests)
    /\ ret' = None
    /\ UNCHANGED <<max_stored_requests, completed_requests, net_cdp_event_tasks,
                   loop_ready, cleanup_pc, now, nextUid, stored, clearedAt,
                   sentHandled>>
    /\ UNCHANGED notTracker

OnResponseReceived(r, status) ==
    /\ IF r \in DOMAIN active_requests
       THEN active_requests' =
                [active_requests EXCEPT ![r].response_status = status]
       ELSE UNCHANGED active_requests
    /\ lastOp' = Op("response_received", r, r \in DOMAIN active_requests)
    /\ ret' = None
    /\ UNCHANGED <<max_stored_requests, completed_requests, net_cdp_event_tasks,
                   loop_ready, cleanup_pc, now, nextUid, stored, clearedAt, sentHandled>>
    /\ UNCHANGED notTracker

\* OnLoadingFailed with the slip of leaving the record in the active mapping.
OnLoadingFailed_KeepsActive(r, errorText) ==
    /\ IF r \in DOMAIN active_requests
       THEN LET tracker == [active_requests[r] EXCEPT
                               !.failed = TRUE,
                               !.failure_reason =
                                   Some(DictGet(errorText, "Unknown error")),
                               !.end_time = Some(now)]
            IN  /\ completed_requests' =
                       store_completed_request(completed_requests, tracker)
                /\ active_requests' = DictSet(active_requests, r, tracker)
                /\ stored' = Append(stored, tracker.uid)
       ELSE UNCHANGED <<active_requests, completed_requests, stored>>
    /\ lastOp' = Op("loading_failed", r, r \in DOMAIN active_requests)
    /\ ret' = None
    /\ UNCHANGED <<max_stored_requests, net_cdp_event_tasks, loop_ready,
                   cleanup_pc, now, nextUid, clearedAt, sentHandled>>
    /\ UNCHANGED notTracker

OnLoadingFailed(r, errorText) ==
    /\ IF r \in DOMAIN active_requests
       THEN LET tracker == [active_requests[r] EXCEPT
                               !.failed = TRUE,
                               !.failure_reason =
                                   Some(DictGet(errorText, "Unknown error")),
                               !.end_time = Some(now)]
            IN  /\ completed_requests' =
                       store_completed_request(completed_requests, tracker)
                /\ active_requests' = DictDel(active_requests, r)
                /\ stored' = Append(stored, tracker.uid)
       ELSE UNCHANGED <<active_requests, completed_requests, stored>>
    /\ lastOp' = Op("loading_failed", r, r \in DOMAIN active_requests)
    /\ ret' = None
    /\ UNCHANGED <<max_stored_requests, net_cdp_event_tasks, loop_ready,
                   cleanup_pc, now, nextUid, clearedAt, sentHandled>>
    /\ UNCHANGED notTracker

\* OnLoadingFinished with the slip of stamping no end time.
OnLoadingFinished_NoEndTime(r, encodedDataLength) ==
    /\ IF r \in DOMAIN active_requests
       THEN LET tracker == [active_requests[r] EXCEPT
                               !.response_size =
                                   IF Truthy(encodedDataLength)
                                   THEN encodedDataLength ELSE @]
            IN  /\ completed_requests' =
                       store_completed_request(completed_requests, tracker)
                /\ active_requests' = DictDel(active_requests, r)
                /\ stored' = Append(stored, tracker.uid)
       ELSE UNCHANGED <<active_requests, completed_requests, stored>>
    /\ lastOp' = Op("loading_finished", r, r \in DOMAIN active_requests)
    /\ ret' = None
    /\ UNCHANGED <<max_stored_requests, net_cdp_event_tasks, loop_ready,
                   cleanup_pc, now, nextUid, clearedAt, sentHandled>>
    /\ UNCHANGED notTracker

OnLoadingFinished(r, encodedDataLength) ==
    /\ IF r \in DOMAIN active_requests
       THEN LET tracker == [active_requests[r] EXCEPT
                               !.end_time = Some(now),
                               !.response_size =
                                   IF Truthy(encodedDataLength)
                                   THEN encodedDataLength ELSE @]
            IN  /\ completed_requests' =
                       store_completed_request(completed_requests, tracker)
                /\ active_requests' = DictDel(active_requests, r)
                /\ stored' = Append(stored, tracker.uid)
       ELSE UNCHANGED <<active_requests, completed_requests, stored>>
    /\ lastOp' = Op("loading_finished", r, r \in DOMAIN active_requests)
    /\ ret' = None
    /\ UNCHANGED <<max_stored_requests, net_cdp_event_tasks, loop_ready,
                   cleanup_pc, now, nextUid, clearedAt, sentHandled>>
    /\ UNCHANGED notTracker

GetRecentRequests(limit) ==
    /\ ret' = get_recent_requests(limit)
    /\ lastOp' = Op("get_recent_requests", limit, TRUE)
    /\ UNCHANGED <<max_stored_requests, active_requests, completed_requests,
                   net_cdp_event_tasks, loop_ready, cleanup_pc, now, nextUid,
                   stored, clearedAt, sentHandled>>
    /\ UNCHANGED notTracker

\* clear_request_history with the slip of clearing the active mapping too.
ClearRequestHistory_AlsoActive ==
    /\ completed_requests' = << >>
    /\ active_requests' = EmptyDict
    /\ clearedAt' = Len(stored)
    /\ UNCHANGED stored
    /\ lastOp' = Op("clear_request_history", 0, TRUE)
    /\ ret' = None
    /\ UNCHANGED <<max_stored_requests, net_cdp_event_tasks,
                   loop_ready, cleanup_pc, now, nextUid, sentHandled>>
    /\ UNCHANGED notTracker

ClearRequestHistory ==
    /\ completed_requests' = << >>
    /\ clearedAt' = Len(stored)
    /\ UNCHANGED stored
    /\ lastOp' = Op("clear_request_history", 0, TRUE)
    /\ ret' = None
    /\ UNCHANGED <<max_stored_requests, active_requests, net_cdp_event_tasks,
                   loop_ready, cleanup_pc, now, nextUid, sentHandled>>
    /\ UNCHANGED notTracker

\* time.time() moves on.
Tick ==
    /\ now < MaxTime
    /\ now' = now + 1
    /\ UNCHANGED <<max_stored_requests, active_requests, completed_requests,
                   net_cdp_event_tasks, loop_ready, cleanup_pc, nextUid,
                   stored, clearedAt, sentHandled, lastOp, ret>>
    /\ UNCHANGED notTracker

\* _cleanup_monitoring, run by on_BrowserStoppedEvent, up to its first
\* suspension: every tracked task is cancelled (a task cancelled before it
\* started never runs its body); with no tracked task nothing is awaited and
\* the routine runs to its end.
CleanupMonitoring ==
    /\ cleanup_pc = "idle"
    /\ IF net_cdp_event_tasks = {}
       THEN /\ active_requests' = EmptyDict
            /\ sessions_with_listeners' =
                   [sessions_with_listeners EXCEPT !["network"] = {}]
            /\ UNCHANGED <<loop_ready, cleanup_pc, net_cdp_event_tasks>>
       ELSE /\ loop_ready' =
                   SelectSeq(loop_ready,
                             LAMBDA task : task.tid \notin net_cdp_event_tasks)
            /\ cleanup_pc' = "gather"
            /\ UNCHANGED <<active_requests, sessions_with_listeners,
                           net_cdp_event_tasks>>
    /\ lastOp' = Op("cleanup_monitoring", 0, TRUE)
    /\ ret' = None
    /\ UNCHANGED <<max_stored_requests, completed_requests, now, nextUid,
                   stored, clearedAt, sentHandled>>
    /\ UNCHANGED <<restOfAttach, classifyVars, monVars>>

\* _cleanup_monitoring resumes after asyncio.gather and runs to its end.
CleanupGathered ==
    /\ cleanup_pc = "gather"
    /\ net_cdp_event_tasks' = {}
    /\ active_requests' = EmptyDict
    /\ sessions_with_listeners' =
           [sessions_with_listeners EXCEPT !["network"] = {}]
    /\ cleanup_pc' = "idle"
    /\ lastOp' = Op("cleanup_monitoring", 0, TRUE)
    /\ ret' = None
    /\ UNCHANGED <<max_stored_requests, completed_requests, loop_ready, now,
                   nextUid, stored, clearedAt, sentHandled>>
    /\ UNCHANGED <<restOfAttach, classifyVars, monVars>>

\* ------------------------------------------------------------ attach_to_target
Targets == 1 .. MaxTargets
SessionIds == 1 .. MaxSessions
Watchdogs == {"crash", "network"}

\* The notification kinds a watchdog registers a handler for.
Kinds(w) ==
    IF w = "crash"
    THEN {"targetCrashed"}
    ELSE {"requestWillBeSent", "responseReceived", "loadingFailed",
          "loadingFinished"}

\* The session registry: the cached session of the target, a new one if absent.
get_or_create_cdp_session(target_id) ==
    IF target_id \in DOMAIN cdp_session_pool
    THEN cdp_session_pool
    ELSE DictSet(cdp_session_pool, target_id, nextSid)

\* cdp_client.register.<kind>(handler) for every kind of the watchdog.
Register(w, sid) ==
    [listeners EXCEPT ![w][sid] = [k \in Kinds(w) |-> @[k] + 1]]

\* A call frame of attach_to_target suspended at an await.
Frame(w, target_id, pc, sid) ==
    [watchdog |-> w, target_id |-> target_id, pc |-> pc, session_id |-> sid]

\* attach_to_target returns (normally, or through its except clause).
Return(c) ==
    /\ calls' = DictDel(calls, c)
    /\ attachReturned' =
           [attachReturned EXCEPT ![calls[c].watchdog][calls[c].target_id] = @ + 1]

\* The registry can serve the target: it is cached, or a session can be made.
CanAcquire(target_id) ==
    target_id \in DOMAIN cdp_session_pool \/ nextSid <= MaxSessions

SidAfterAcquire(target_id) ==
    IF target_id \in DOMAIN cdp_session_pool THEN nextSid ELSE nextSid + 1

\* CrashWatchdog.attach_to_target is called and suspends in
\* get_or_create_cdp_session.
CrashAttachStart(target_id) ==
    /\ attachStarted < MaxAttachCalls
    /\ attachStarted' = attachStarted + 1
    /\ calls' = DictSet(calls, attachStarted + 1,
                        Frame("crash", target_id, "acquire", 0))
    /\ UNCHANGED <<cdp_session_pool, nextSid, listeners, network_enabled,
                   sessions_with_listeners, monitoring_task, loop_tasks,
                   crash_cdp_event_tasks, attachReturned, lastFire>>
    /\ UNCHANGED notAttach

\* get_or_create_cdp_session completes (ok) or raises; on ok the membership
\* check, the registration and the insertion run without suspension, up to
\* the await of Target.getTargets.
CrashAttachAcquired(c, ok) ==
    /\ c \in DOMAIN calls
    /\ calls[c].watchdog = "crash"
    /\ calls[c].pc = "acquire"
    /\ LET t    == calls[c].target_id
           pool == get_or_create_cdp_session(t)
       IN  IF ~ok
           THEN /\ Return(c)
                /\ UNCHANGED <<cdp_session_pool, nextSid, listeners,
                               sessions_with_listeners>>
           ELSE /\ CanAcquire(t)
                /\ cdp_session_pool' = pool
                /\ nextSid' = SidAfterAcquire(t)
                /\ IF pool[t] \in sessions_with_listeners["crash"]
                   THEN /\ Return(c)
                        /\ UNCHANGED <<listeners, sessions_with_listeners>>
                   ELSE /\ listeners' = Register("crash", pool[t])
                        /\ sessions_with_listeners' =
                               [sessions_with_listeners EXCEPT
                                   !["crash"] = @ \cup {pool[t]}]
                        /\ calls' = [calls EXCEPT
                                        ![c] = Frame("crash", t, "getTargets", pool[t])]
                        /\ UNCHANGED attachReturned
    /\ UNCHANGED <<network_enabled, monitoring_task, loop_tasks, crash_cdp_event_tasks,
                   attachStarted, lastFire>>
    /\ UNCHANGED notAttach

\* Target.getTargets completes or raises: either way the call returns.
CrashAttachGotTargets(c, ok) ==
    /\ c \in DOMAIN calls
    /\ calls[c].watchdog = "crash"
    /\ calls[c].pc = "getTargets"
    /\ Return(c)
    /\ UNCHANGED <<cdp_session_pool, nextSid, listeners, network_enabled,
                   sessions_with_listeners, monitoring_task, loop_tasks,
                   crash_cdp_event_tasks, attachStarted, lastFire>>
    /\ UNCHANGED notAttach

\* NetworkWatchdog.attach_to_target is called and suspends in
\* get_or_create_cdp_session.
NetAttachStart(target_id) ==
    /\ attachStarted < MaxAttachCalls
    /\ attachStarted' = attachStarted + 1
    /\ calls' = DictSet(calls, attachStarted + 1,
                        Frame("network", target_id, "acquire", 0))
    /\ UNCHANGED <<cdp_session_pool, nextSid, listeners, network_enabled,
                   sessions_with_listeners, monitoring_task, loop_tasks,
                   crash_cdp_event_tasks, attachReturned, lastFire>>
    /\ UNCHANGED notAttach

\* NetAttachAcquired with the slip of skipping the membership check.
NetAttachAcquired_NoCheck(c, ok) ==
    /\ c \in DOMAIN calls
    /\ calls[c].watchdog = "network"
    /\ calls[c].pc = "acquire"
    /\ LET t    == calls[c].target_id
           pool == get_or_create_cdp_session(t)
       IN  IF ~ok
           THEN /\ Return(c)
                /\ UNCHANGED <<cdp_session_pool, nextSid>>
           ELSE /\ CanAcquire(t)
                /\ cdp_session_pool' = pool
                /\ nextSid' = SidAfterAcquire(t)
                /\ calls' = [calls EXCEPT
                                ![c] = Frame("network", t, "enable", pool[t])]
                /\ UNCHANGED attachReturned
    /\ UNCHANGED <<listeners, network_enabled, sessions_with_listeners,
                   monitoring_task, loop_tasks, crash_cdp_event_tasks, attachStarted,
                   lastFire>>
    /\ UNCHANGED notAttach

\* get_or_create_cdp_session completes (ok) or raises; on ok the membership
\* check runs and the call suspends in Network.enable.
NetAttachAcquired(c, ok) ==
    /\ c \in DOMAIN calls
    /\ calls[c].watchdog = "network"
    /\ calls[c].pc = "acquire"
    /\ LET t    == calls[c].target_id
           pool == get_or_create_cdp_session(t)
       IN  IF ~ok
           THEN /\ Return(c)
                /\ UNCHANGED <<cdp_session_pool, nextSid>>
           ELSE /\ CanAcquire(t)
                /\ cdp_session_pool' = pool
                /\ nextSid' = SidAfterAcquire(t)
                /\ IF pool[t] \in sessions_with_listeners["network"]
                   THEN Return(c)
                   ELSE /\ calls' = [calls EXCEPT
                                        ![c] = Frame("network", t, "enable", pool[t])]
                        /\ UNCHANGED attachReturned
    /\ UNCHANGED <<listeners, network_enabled, sessions_with_listeners,
                   monitoring_task, loop_tasks, crash_cdp_event_tasks, attachStarted,
                   lastFire>>
    /\ UNCHANGED notAttach

\* Network.enable completes (ok) or raises; on ok the four handlers are
\* registered and the session id inserted, up to the await of
\* Target.getTargets.
NetAttachEnabled(c, ok) ==
    /\ c \in DOMAIN calls
    /\ calls[c].watchdog = "network"
    /\ calls[c].pc = "enable"
    /\ LET sid == calls[c].session_id
       IN  IF ~ok
           THEN /\ Return(c)
                /\ UNCHANGED <<listeners, network_enabled,
                               sessions_with_listeners>>
           ELSE /\ network_enabled' = [network_enabled EXCEPT ![sid] = @ + 1]
                /\ listeners' = Register("network", sid)
                /\ sessions_with_listeners' =
                       [sessions_with_listeners EXCEPT
                           !["network"] = @ \cup {sid}]
                /\ calls' = [calls EXCEPT ![c].pc = "getTargets"]
                /\ UNCHANGED attachReturned
    /\ UNCHANGED <<cdp_session_pool, nextSid, monitoring_task, loop_tasks,
                   crash_cdp_event_tasks, attachStarted, lastFire>>
    /\ UNCHANGED notAttach

\* Target.getTargets completes or raises: either way the call returns.
NetAttachGotTargets(c, ok) ==
    /\ c \in DOMAIN calls
    /\ calls[c].watchdog = "network"
    /\ calls[c].pc = "getTargets"
    /\ Return(c)
    /\ UNCHANGED <<cdp_session_pool, nextSid, listeners, network_enabled,
                   sessions_with_listeners, monitoring_task, loop_tasks,
                   crash_cdp_event_tasks, attachStarted, lastFire>>
    /\ UNCHANGED notAttach

\* _stop_monitoring, run by on_BrowserStoppedEvent, when no monitoring loop
\* is running and no recovery task is tracked: nothing is awaited.
StopMonitoring ==
    /\ monitoring_task # "running"
    /\ crash_cdp_event_tasks = {}
    /\ crash_cdp_event_tasks' = {}
    /\ sessions_with_listeners' =
           [sessions_with_listeners EXCEPT !["crash"] = {}]
    /\ UNCHANGED <<cdp_session_pool, nextSid, listeners, network_enabled,
                   calls, monitoring_task, loop_tasks, attachStarted, attachReturned,
                   lastFire>>
    /\ UNCHANGED notAttach

\* The protocol client delivers one notification of kind k scoped to a
\* pooled session: every handler registered for it runs once.
DeliverNotification(w, target_id, k) ==
    /\ target_id \in DOMAIN cdp_session_pool
    /\ lastFire' = Some([watchdog   |-> w,
                         session_id |-> cdp_session_pool[target_id],
                         kind       |-> k,
                         runs       |-> listeners[w][cdp_session_pool[target_id]][k]])
    /\ UNCHANGED <<cdp_session_pool, nextSid, listeners, network_enabled,
                   sessions_with_listeners, calls, monitoring_task, loop_tasks,
                   crash_cdp_event_tasks, attachStarted, attachReturned>>
    /\ UNCHANGED notAttach

\* --------------------------------------------------- CrashWatchdog monitoring
\* psutil process statuses; the two that count as a crashed browser.
ProcStatuses == {"running", "zombie", "dead"}
DeadStatuses == {"zombie", "dead"}

\* BrowserErrorEvent(error_type=..., details=...); by is who dispatched it.
BrowserErrorEvent(error_type, details, by) ==
    [error_type |-> error_type, details |-> details, by |-> by]

TargetCrash(target_id, by) ==
    BrowserErrorEvent("TargetCrash", [target_id |-> target_id], by)

BrowserProcessCrashed(status) ==
    BrowserErrorEvent("BrowserProcessCrashed",
                      [pid |-> "proc.pid", status |-> status], <<"health_check">>)

\* The sessions of the pool (dict.values()).
PoolValues(pool) == {pool[t] : t \in DOMAIN pool}

\* Does agent_focus name a target (agent_focus and agent_focus.target_id)?
FocusNames(focus) == focus # None /\ focus[1] # None
FocusTarget(focus) == focus[1][1]

\* The history record of a health check.
HcIdle ==
    [ phase              |-> "none",
      failed             |-> FALSE,
      probe_failed       |-> FALSE,
      focus_at_failure   |-> None,
      session_at_failure |-> None,
      dead_found         |-> FALSE,
      pooled_when_found  |-> {},
      events_at_start    |-> 0 ]

HcStarted == [HcIdle EXCEPT !.phase = "running", !.events_at_start = Len(event_bus)]

\* A frame of _stop_monitoring: where it is suspended, the tasks it gathers
\* and the steps it has performed.
StopFrame(pc, gather, log) == [pc |-> pc, gather |-> gather, log |-> log]
StopIdle == StopFrame("idle", {}, << >>)

\* A frame of _on_target_crash_cdp suspended at an await (or not yet run).
RecoveryFrame(target_id, pc, session) ==
    [target_id |-> target_id, pc |-> pc, session |-> session, cancelled |-> FALSE]

\* The variables of the registry and the watchdog a step may leave alone.
registryVars == <<cdp_session_pool, nextSid, disconnected>>
loopLocals == <<hc_cdp_session, hc_pages, evict_iter, loop_stop>>
stopVars == <<stop_frame, lastStop>>
taskVars == <<recovery, nextTask, crash_cdp_event_tasks, finished>>
envVars == <<proc, connected, start_tasks>>

\* The browser process becomes a zombie or dies, and stays so.
ProcessDies(status) ==
    /\ proc = "running"
    /\ status \in DeadStatuses
    /\ proc' = status
    /\ UNCHANGED <<connected, start_tasks, agent_focus, event_bus, loop_pc,
                   must_cancel, fut_blocking, hc, episodeStart, detected,
                   monitoring_task, loop_tasks, sessions_with_listeners, listeners>>
    /\ UNCHANGED <<registryVars, loopLocals, stopVars, taskVars>>
    /\ UNCHANGED notMon

\* The BrowserSession gives the focus, which names no target, a target
\* again, between health checks.
SwitchFocus(target_id) ==
    /\ hc.phase # "running"
    /\ agent_focus = Some(None)
    /\ agent_focus' = Some(Some(target_id))
    /\ UNCHANGED <<event_bus, loop_pc, must_cancel, fut_blocking, hc,
                   episodeStart, detected, monitoring_task, loop_tasks,
                   sessions_with_listeners, listeners>>
    /\ UNCHANGED <<registryVars, loopLocals, stopVars, taskVars, envVars>>
    /\ UNCHANGED notMon

\* on_BrowserConnectedEvent: create_task(_start_monitoring()).
BrowserConnectedEvent ==
    /\ connected < MaxConnected
    /\ connected' = connected + 1
    /\ start_tasks' = start_tasks + 1
    /\ UNCHANGED <<proc, agent_focus, event_bus, loop_pc, must_cancel,
                   fut_blocking, hc, episodeStart, detected, monitoring_task, loop_tasks,
                   sessions_with_listeners, listeners>>
    /\ UNCHANGED <<registryVars, loopLocals, stopVars, taskVars>>
    /\ UNCHANGED notMon

\* StartMonitoring with the slip of creating a loop task without looking for
\* one that is still running.
StartMonitoring_NoRunningCheck ==
    /\ start_tasks > 0
    /\ start_tasks' = start_tasks - 1
    /\ monitoring_task' = "running"
    /\ loop_tasks' = loop_tasks + 1
    /\ loop_pc' = "startup_sleep"
    /\ must_cancel' = FALSE
    /\ fut_blocking' = FALSE
    /\ hc' = HcIdle
    /\ episodeStart' = Len(event_bus)
    /\ detected' = FALSE
    /\ UNCHANGED <<proc, connected, agent_focus, event_bus,
                   sessions_with_listeners, listeners>>
    /\ UNCHANGED <<registryVars, loopLocals, stopVars, taskVars>>
    /\ UNCHANGED notMon

\* A _start_monitoring task runs: it returns when a loop task exists that is
\* not done, else it creates the loop task, which suspends in its startup
\* sleep.
StartMonitoring ==
    /\ start_tasks > 0
    /\ start_tasks' = start_tasks - 1
    /\ IF monitoring_task = "running"
       THEN UNCHANGED <<monitoring_task, loop_tasks, loop_pc, must_cancel, fut_blocking,
                        hc, episodeStart, detected>>
       ELSE /\ monitoring_task' = "running"
            /\ loop_tasks' = loop_tasks + 1
            /\ loop_pc' = "startup_sleep"
            /\ must_cancel' = FALSE
            /\ fut_blocking' = FALSE
            /\ hc' = HcIdle
            /\ episodeStart' = Len(event_bus)
            /\ detected' = FALSE
    /\ UNCHANGED <<proc, connected, agent_focus, event_bus,
                   sessions_with_listeners, listeners>>
    /\ UNCHANGED <<registryVars, loopLocals, stopVars, taskVars>>
    /\ UNCHANGED notMon

\* The native crash notification of a pooled session fires: each registered
\* on_target_crashed creates a task of _on_target_crash_cdp and tracks it.
TargetCrashedEvent(target_id) ==
    /\ target_id \in DOMAIN cdp_session_pool
    /\ LET n   == listeners["crash"][cdp_session_pool[target_id]]["targetCrashed"]
           new == nextTask .. (nextTask + n - 1)
       IN  /\ n >= 1
           /\ nextTask + n - 1 <= MaxCrashTasks
           /\ nextTask' = nextTask + n
           /\ recovery' = [k \in (DOMAIN recovery) \cup new |->
                              IF k \in new
                              THEN RecoveryFrame(target_id, "start", None)
                              ELSE recovery[k]]
           /\ crash_cdp_event_tasks' = crash_cdp_event_tasks \cup new
    /\ UNCHANGED <<agent_focus, event_bus, loop_pc, must_cancel, fut_blocking,
                   hc, episodeStart, detected, monitoring_task, loop_tasks,
                   sessions_with_listeners, listeners, finished>>
    /\ UNCHANGED <<registryVars, loopLocals, stopVars, envVars>>
    /\ UNCHANGED notMon

\* A recovery task ends: its done callback discards it from the tracked set.
RecoveryEnds(k, outcome) ==
    /\ recovery' = DictDel(recovery, k)
    /\ crash_cdp_event_tasks' = crash_cdp_event_tasks \ {k}
    /\ finished' = Some([ id        |-> k,
                          target_id |-> recovery[k].target_id,
                          session   |-> recovery[k].session,
                          outcome   |-> outcome ])

\* A cancelled recovery task is resumed: CancelledError ends it.
RecoveryCancelled(k) ==
    /\ k \in DOMAIN recovery
    /\ recovery[k].cancelled
    /\ RecoveryEnds(k, "cancelled")
    /\ UNCHANGED <<agent_focus, event_bus, loop_pc, must_cancel, fut_blocking,
                   hc, episodeStart, detected, monitoring_task, loop_tasks,
                   sessions_with_listeners, listeners, nextTask>>
    /\ UNCHANGED <<registryVars, loopLocals, stopVars, envVars>>
    /\ UNCHANGED notMon

\* _on_target_crash_cdp starts: the target's session is popped from the pool
\* and, if there was one, the task suspends in its disconnect(); else it
\* suspends in Target.getTargets.
RecoveryStart(k) ==
    /\ k \in DOMAIN recovery
    /\ ~recovery[k].cancelled
    /\ recovery[k].pc = "start"
    /\ LET t == recovery[k].target_id
       IN  IF t \in DOMAIN cdp_session_pool
           THEN /\ cdp_session_pool' = DictDel(cdp_session_pool, t)
                /\ recovery' = [recovery EXCEPT
                                   ![k] = RecoveryFrame(t, "disconnect",
                                                        Some(cdp_session_pool[t]))]
           ELSE /\ recovery' = [recovery EXCEPT ![k].pc = "getTargets"]
                /\ UNCHANGED cdp_session_pool
    /\ UNCHANGED <<agent_focus, event_bus, loop_pc, must_cancel, fut_blocking,
                   hc, episodeStart, detected, monitoring_task, loop_tasks,
                   sessions_with_listeners, listeners, nextTask,
                   crash_cdp_event_tasks, finished, nextSid, disconnected>>
    /\ UNCHANGED <<loopLocals, stopVars, envVars>>
    /\ UNCHANGED notMon

\* session.disconnect() completes; the task suspends in Target.getTargets.
RecoveryDisconnected(k) ==
    /\ k \in DOMAIN recovery
    /\ ~recovery[k].cancelled
    /\ recovery[k].pc = "disconnect"
    /\ disconnected' = disconnected \cup {recovery[k].session[1]}
    /\ recovery' = [recovery EXCEPT ![k].pc = "getTargets"]
    /\ UNCHANGED <<agent_focus, event_bus, loop_pc, must_cancel, fut_blocking,
                   hc, episodeStart, detected, monitoring_task, loop_tasks,
                   sessions_with_listeners, listeners, nextTask,
                   crash_cdp_event_tasks, finished, cdp_session_pool, nextSid>>
    /\ UNCHANGED <<loopLocals, stopVars, envVars>>
    /\ UNCHANGED notMon

\* _on_target_crash_cdp with the slip of dispatching no event.
RecoveryGotTargets_NoDispatch(k, ok, listed) ==
    /\ k \in DOMAIN recovery
    /\ ~recovery[k].cancelled
    /\ recovery[k].pc = "getTargets"
    /\ LET t == recovery[k].target_id
       IN  IF ~ok
           THEN /\ RecoveryEnds(k, "raised")
                /\ UNCHANGED <<agent_focus, event_bus>>
           ELSE /\ agent_focus' =
                       IF listed /\ FocusNames(agent_focus)
                                 /\ FocusTarget(agent_focus) = t
                       THEN Some(None) ELSE agent_focus
                /\ UNCHANGED event_bus
                /\ RecoveryEnds(k, "returned")
    /\ UNCHANGED <<loop_pc, must_cancel, fut_blocking, hc, episodeStart,
                   detected, monitoring_task, loop_tasks, sessions_with_listeners,
                   listeners, nextTask>>
    /\ UNCHANGED <<registryVars, loopLocals, stopVars, envVars>>
    /\ UNCHANGED notMon

\* Target.getTargets completes (ok) or raises.  On ok the focus is cleared
\* when the target is listed and the focus names it, the TargetCrash event
\* is dispatched and the task returns; a raise ends the task.
RecoveryGotTargets(k, ok, listed) ==
    /\ k \in DOMAIN recovery
    /\ ~recovery[k].cancelled
    /\ recovery[k].pc = "getTargets"
    /\ LET t == recovery[k].target_id
       IN  IF ~ok
           THEN /\ RecoveryEnds(k, "raised")
                /\ UNCHANGED <<agent_focus, event_bus>>
           ELSE /\ Len(event_bus) < MaxEvents
                /\ agent_focus' =
                       IF listed /\ FocusNames(agent_focus)
                                 /\ FocusTarget(agent_focus) = t
                       THEN Some(None) ELSE agent_focus
                /\ event_bus' = Append(event_bus, TargetCrash(t, <<"recovery", k>>))
                /\ RecoveryEnds(k, "returned")
    /\ UNCHANGED <<loop_pc, must_cancel, fut_blocking, hc, episodeStart,
                   detected, monitoring_task, loop_tasks, sessions_with_listeners,
                   listeners, nextTask>>
    /\ UNCHANGED <<registryVars, loopLocals, stopVars, envVars>>
    /\ UNCHANGED notMon

\* ------------------------------------------- _monitoring_loop and health check
TMin(S) == CHOOSE x \in S : \A y \in S : x <= y

\* What a step of the loop task leaves alone unless it says otherwise.
loopCore == <<agent_focus, event_bus, must_cancel, fut_blocking, evict_iter,
              loop_stop, detected>>
loopRest == <<sessions_with_listeners, monitoring_task, loop_tasks, listeners, episodeStart>>

\* The loop task may take a step of its own: it is alive and no cancel() is
\* waiting to be delivered at the await it is suspended in.
LoopAt(pc) ==
    /\ monitoring_task = "running"
    /\ loop_pc = pc
    /\ ~must_cancel

\* _check_browser_health returns; the loop suspends in
\* asyncio.sleep(check_interval_seconds).
CheckReturns(h) ==
    /\ hc' = [h EXCEPT !.phase = "ended"]
    /\ detected' = (detected \/ h.dead_found)
    /\ loop_pc' = "interval_sleep"

\* Lines 226-236: the pool is cleared, BrowserProcessCrashed is dispatched
\* and _stop_monitoring is entered by the loop task itself: it cancels the
\* task it runs in and awaits it.  The first such await suspends (and leaves
\* the task's blocking flag set); a later one finds the flag set and raises
\* RuntimeError, which the except clause of line 238 swallows.
ProcessCrashed(h) ==
    /\ Len(event_bus) < MaxEvents
    /\ cdp_session_pool' = EmptyDict
    /\ event_bus' = Append(event_bus, BrowserProcessCrashed(proc))
    /\ must_cancel' = TRUE
    /\ evict_iter' = None
    /\ IF fut_blocking
       THEN /\ CheckReturns(h)
            /\ UNCHANGED <<fut_blocking, loop_stop>>
       ELSE /\ fut_blocking' = TRUE
            /\ loop_pc' = "stop_await_self"
            /\ loop_stop' = StopFrame("await_loop", {},
                                      <<"cancel_loop", "await_loop">>)
            /\ hc' = h
            /\ UNCHANGED detected

\* Lines 218-239, run with the pool as the lines before left it, up to the
\* next await or the return.
ProcBranch(pool, h) ==
    IF proc \notin DeadStatuses
    THEN /\ cdp_session_pool' = pool
         /\ CheckReturns(h)
         /\ UNCHANGED <<event_bus, must_cancel, fut_blocking, evict_iter,
                        loop_stop>>
    ELSE LET h2 == [h EXCEPT !.dead_found = TRUE,
                             !.pooled_when_found = PoolValues(pool)]
         IN  IF DOMAIN pool = {}
             THEN ProcessCrashed(h2)
             ELSE /\ cdp_session_pool' = pool
                  /\ evict_iter' =
                         Some([ size    |-> Cardinality(DOMAIN pool),
                                session |-> pool[TMin(DOMAIN pool)],
                                left    |-> (DOMAIN pool) \ {TMin(DOMAIN pool)} ])
                  /\ loop_pc' = "evict"
                  /\ hc' = h2
                  /\ UNCHANGED <<event_bus, must_cancel, fut_blocking,
                                 loop_stop, detected>>

\* HandlerTail with the slip of leaving the focus as it is.
HandlerTail_KeepsFocus(pool, h) ==
    IF agent_focus = None
    THEN /\ hc' = [h EXCEPT !.phase = "raised"]
         /\ loop_pc' = "loop_except"
         /\ cdp_session_pool' = pool
         /\ UNCHANGED loopCore
    ELSE /\ agent_focus' = agent_focus
         /\ ProcBranch(pool, h)

\* Line 216 and what follows: with no agent_focus object the assignment
\* raises AttributeError, which leaves the health check and is logged by the
\* loop; else the focus is cleared and the process check runs.
HandlerTail(pool, h) ==
    IF agent_focus = None
    THEN /\ hc' = [h EXCEPT !.phase = "raised"]
         /\ loop_pc' = "loop_except"
         /\ cdp_session_pool' = pool
         /\ UNCHANGED loopCore
    ELSE /\ agent_focus' = Some(None)
         /\ ProcBranch(pool, h)

\* Lines 207-216: the except clause of the health check, entered by a
\* failure of the probe (isProbe) or of an earlier step.
FailureHandler(isProbe) ==
    LET h == [hc EXCEPT !.failed = TRUE,
                        !.probe_failed = isProbe,
                        !.focus_at_failure =
                            IF FocusNames(agent_focus)
                            THEN Some(FocusTarget(agent_focus)) ELSE None]
    IN  IF FocusNames(agent_focus) /\ FocusTarget(agent_focus) \in DOMAIN cdp_session_pool
        THEN /\ cdp_session_pool' = DictDel(cdp_session_pool, FocusTarget(agent_focus))
             /\ hc' = [h EXCEPT !.session_at_failure =
                                    Some(cdp_session_pool[FocusTarget(agent_focus)])]
             /\ loop_pc' = "handler_disconnect"
             /\ UNCHANGED loopCore
        ELSE HandlerTail(cdp_session_pool, h)

\* HealthCheckStarts with the slip of a loop that an exception of the check
\* ends.
HealthCheckStarts_NotAfterException ==
    /\ \/ LoopAt("startup_sleep")
       \/ LoopAt("interval_sleep")
    /\ loop_pc' = "acquire"
    /\ hc' = HcStarted
    /\ hc_cdp_session' = None
    /\ hc_pages' = {}
    /\ UNCHANGED <<cdp_session_pool, nextSid, disconnected>>
    /\ UNCHANGED loopCore
    /\ UNCHANGED <<loopRest, stopVars, taskVars, envVars>>
    /\ UNCHANGED notMon

\* A sleep of the loop ends, or the loop has logged an exception of the
\* check: the next health check starts and suspends in
\* get_or_create_cdp_session().
HealthCheckStarts ==
    /\ \/ LoopAt("startup_sleep")
       \/ LoopAt("interval_sleep")
       \/ monitoring_task = "running" /\ loop_pc = "loop_except"
    /\ loop_pc' = "acquire"
    /\ hc' = HcStarted
    /\ hc_cdp_session' = None
    /\ hc_pages' = {}
    /\ UNCHANGED <<cdp_session_pool, nextSid, disconnected>>
    /\ UNCHANGED loopCore
    /\ UNCHANGED <<loopRest, stopVars, taskVars, envVars>>
    /\ UNCHANGED notMon

\* The session of the focused target is acquired.
AcquireFocused ==
    /\ FocusNames(agent_focus)
    /\ CanAcquire(FocusTarget(agent_focus))
    /\ cdp_session_pool' = get_or_create_cdp_session(FocusTarget(agent_focus))
    /\ nextSid' = SidAfterAcquire(FocusTarget(agent_focus))
    /\ hc_cdp_session' =
           Some(get_or_create_cdp_session(FocusTarget(agent_focus))[FocusTarget(agent_focus)])
    /\ loop_pc' = "getTargets"
    /\ UNCHANGED <<hc, hc_pages>>
    /\ UNCHANGED loopCore

\* Line 180: get_or_create_cdp_session() completes or raises; a raise leads
\* to the retry of line 185.
CheckAcquired(ok) ==
    /\ LoopAt("acquire")
    /\ IF ok
       THEN AcquireFocused
       ELSE /\ loop_pc' = "fallback"
            /\ UNCHANGED <<cdp_session_pool, nextSid, hc, hc_cdp_session, hc_pages>>
            /\ UNCHANGED loopCore
    /\ UNCHANGED disconnected
    /\ UNCHANGED <<loopRest, stopVars, taskVars, envVars>>
    /\ UNCHANGED notMon

\* Line 185: the retry with a new socket completes or raises.
CheckFallback(ok) ==
    /\ LoopAt("fallback")
    /\ IF ok
       THEN AcquireFocused
       ELSE /\ FailureHandler(FALSE)
            /\ UNCHANGED <<nextSid, hc_cdp_session, hc_pages>>
    /\ UNCHANGED disconnected
    /\ UNCHANGED <<loopRest, stopVars, taskVars, envVars>>
    /\ UNCHANGED notMon

\* Line 189: Target.getTargets completes, reporting the page targets, or
\* raises.  With pages the loop suspends in get_or_create_cdp_session of the
\* first; with none it suspends in the probe.
CheckGotTargets(ok, pages) ==
    /\ LoopAt("getTargets")
    /\ IF ok
       THEN /\ hc_pages' = pages
            /\ loop_pc' = IF pages = {} THEN "probe" ELSE "pages"
            /\ UNCHANGED <<cdp_session_pool, hc>>
            /\ UNCHANGED loopCore
       ELSE /\ pages = {}
            /\ FailureHandler(FALSE)
            /\ UNCHANGED hc_pages
    /\ UNCHANGED <<nextSid, disconnected, hc_cdp_session>>
    /\ UNCHANGED <<loopRest, stopVars, taskVars, envVars>>
    /\ UNCHANGED notMon

\* Lines 191-198 for one page target: its session is acquired (and the
\* target navigated when it shows a new-tab page), or a command raises.
\* cdp_session is rebound to the session of the page.
CheckPage(ok) ==
    /\ LoopAt("pages")
    /\ LET t == TMin(hc_pages)
       IN  IF ok
           THEN /\ CanAcquire(t)
                /\ cdp_session_pool' = get_or_create_cdp_session(t)
                /\ nextSid' = SidAfterAcquire(t)
                /\ hc_cdp_session' = Some(get_or_create_cdp_session(t)[t])
                /\ hc_pages' = hc_pages \ {t}
                /\ loop_pc' = IF hc_pages = {t} THEN "probe" ELSE "pages"
                /\ UNCHANGED hc
                /\ UNCHANGED loopCore
           ELSE /\ FailureHandler(FALSE)
                /\ UNCHANGED <<nextSid, hc_cdp_session, hc_pages>>
    /\ UNCHANGED disconnected
    /\ UNCHANGED <<loopRest, stopVars, taskVars, envVars>>
    /\ UNCHANGED notMon

\* Lines 202-205: the probe completes within its timeout, or times out or
\* fails.
CheckProbed(ok) ==
    /\ LoopAt("probe")
    /\ IF ok
       THEN /\ ProcBranch(cdp_session_pool, hc)
            /\ UNCHANGED agent_focus
       ELSE FailureHandler(TRUE)
    /\ UNCHANGED <<nextSid, disconnected, hc_cdp_session, hc_pages>>
    /\ UNCHANGED <<loopRest, stopVars, taskVars, envVars>>
    /\ UNCHANGED notMon

\* Line 214: disconnect() of the session popped by the except clause
\* completes.
HandlerDisconnected ==
    /\ LoopAt("handler_disconnect")
    /\ disconnected' = disconnected \cup {hc.session_at_failure[1]}
    /\ HandlerTail(cdp_session_pool, hc)
    /\ UNCHANGED <<nextSid, hc_cdp_session, hc_pages>>
    /\ UNCHANGED <<loopRest, stopVars, taskVars, envVars>>
    /\ UNCHANGED notMon

\* Line 225: disconnect() of a pooled session completes and the for loop
\* asks the iterator for the next value: a pool whose size has changed since
\* the iteration began raises RuntimeError (swallowed at line 238).
EvictStep ==
    /\ LoopAt("evict")
    /\ disconnected' = disconnected \cup {evict_iter[1].session}
    /\ LET it   == evict_iter[1]
           left == it.left \cap DOMAIN cdp_session_pool
       IN  IF Cardinality(DOMAIN cdp_session_pool) # it.size
           THEN /\ CheckReturns(hc)
                /\ evict_iter' = None
                /\ UNCHANGED <<cdp_session_pool, event_bus, must_cancel,
                               fut_blocking, loop_stop>>
           ELSE IF left = {}
                THEN ProcessCrashed(hc)
                ELSE /\ evict_iter' =
                            Some([ size    |-> it.size,
                                   session |-> cdp_session_pool[TMin(left)],
                                   left    |-> left \ {TMin(left)} ])
                     /\ UNCHANGED <<cdp_session_pool, event_bus, must_cancel,
                                    fut_blocking, loop_stop, hc, detected,
                                    loop_pc>>
    /\ UNCHANGED <<agent_focus, nextSid, hc_cdp_session, hc_pages>>
    /\ UNCHANGED <<loopRest, stopVars, taskVars, envVars>>
    /\ UNCHANGED notMon

\* Lines 151-153: cancel() of every tracked task.
CancelTracked ==
    [k \in DOMAIN recovery |->
        IF k \in crash_cdp_event_tasks
        THEN [recovery[k] EXCEPT !.cancelled = TRUE]
        ELSE recovery[k]]

\* Lines 157-160: both sets are cleared and _stop_monitoring returns.
StopClears(by, log) ==
    /\ crash_cdp_event_tasks' = {}
    /\ sessions_with_listeners' = [sessions_with_listeners EXCEPT !["crash"] = {}]
    /\ lastStop' = Some([by |-> by, log |-> log \o <<"clear_tasks", "clear_sessions">>])

\* The loop task, suspended in the await of itself, is resumed with the
\* CancelledError of its own cancel(), which line 146 swallows: the task
\* lives on.  It cancels the tracked tasks and gathers them, or with none
\* clears the sets, returns from _stop_monitoring and from the health check.
SelfStopResumed ==
    /\ monitoring_task = "running"
    /\ loop_pc = "stop_await_self"
    /\ must_cancel' = FALSE
    /\ recovery' = CancelTracked
    /\ IF crash_cdp_event_tasks # {}
       THEN /\ loop_stop' = StopFrame("gather", crash_cdp_event_tasks,
                                      loop_stop.log \o <<"cancel_tasks", "await_tasks">>)
            /\ loop_pc' = "stop_gather"
            /\ UNCHANGED <<crash_cdp_event_tasks, sessions_with_listeners,
                           lastStop, hc, detected>>
       ELSE /\ StopClears("health_check", loop_stop.log \o <<"cancel_tasks">>)
            /\ loop_stop' = StopIdle
            /\ CheckReturns(hc)
    /\ UNCHANGED <<agent_focus, event_bus, fut_blocking, evict_iter,
                   hc_cdp_session, hc_pages, monitoring_task, loop_tasks, listeners,
                   episodeStart, stop_frame, nextTask, finished>>
    /\ UNCHANGED <<registryVars, envVars>>
    /\ UNCHANGED notMon

\* Line 156 in the loop task: every gathered task has ended.
SelfStopGathered ==
    /\ LoopAt("stop_gather")
    /\ loop_stop.gather \cap DOMAIN recovery = {}
    /\ StopClears("health_check", loop_stop.log)
    /\ loop_stop' = StopIdle
    /\ CheckReturns(hc)
    /\ UNCHANGED <<agent_focus, event_bus, must_cancel, fut_blocking,
                   evict_iter, hc_cdp_session, hc_pages, monitoring_task, loop_tasks,
                   listeners, episodeStart, stop_frame, recovery, nextTask,
                   finished>>
    /\ UNCHANGED <<registryVars, envVars>>
    /\ UNCHANGED notMon

\* The loop task is resumed with a cancel() waiting: CancelledError is
\* raised at its await, passes every except Exception clause and ends the
\* loop (line 169), or ends the task in its startup sleep.  A
\* _stop_monitoring awaiting the task is woken.
MonitorCancelled ==
    /\ monitoring_task = "running"
    /\ must_cancel
    /\ loop_pc \notin {"stop_await_self", "loop_except"}
    /\ monitoring_task' = "done"
    /\ loop_tasks' = loop_tasks - 1
    /\ loop_pc' = "done"
    /\ must_cancel' = FALSE
    /\ hc' = IF hc.phase = "running" THEN [hc EXCEPT !.phase = "cancelled"] ELSE hc
    /\ loop_stop' = StopIdle
    /\ evict_iter' = None
    /\ stop_frame' = IF stop_frame.pc = "await_loop"
                     THEN [stop_frame EXCEPT !.pc = "loop_done"]
                     ELSE stop_frame
    /\ UNCHANGED <<agent_focus, event_bus, fut_blocking, detected,
                   hc_cdp_session, hc_pages, sessions_with_listeners,
                   listeners, episodeStart, lastStop>>
    /\ UNCHANGED <<registryVars, taskVars, envVars>>
    /\ UNCHANGED notMon

\* ----------------------------------------------------- on_BrowserStoppedEvent
\* _stop_monitoring is entered: a loop task that is not done is cancelled
\* and awaited; else lines 150-160 run up to the gather or the return.
StopMonitoringStarts ==
    /\ stop_frame.pc = "idle"
    /\ IF monitoring_task = "running"
       THEN /\ must_cancel' = TRUE
            /\ stop_frame' = StopFrame("await_loop", {},
                                       <<"cancel_loop", "await_loop">>)
            /\ UNCHANGED <<recovery, crash_cdp_event_tasks,
                           sessions_with_listeners, lastStop>>
       ELSE /\ recovery' = CancelTracked
            /\ UNCHANGED must_cancel
            /\ IF crash_cdp_event_tasks # {}
               THEN /\ stop_frame' = StopFrame("gather", crash_cdp_event_tasks,
                                               <<"cancel_tasks", "await_tasks">>)
                    /\ UNCHANGED <<crash_cdp_event_tasks,
                                   sessions_with_listeners, lastStop>>
               ELSE /\ StopClears("stopped_event", <<"cancel_tasks">>)
                    /\ UNCHANGED stop_frame
    /\ UNCHANGED <<agent_focus, event_bus, loop_pc, fut_blocking, hc,
                   episodeStart, detected, monitoring_task, loop_tasks, listeners,
                   nextTask, finished>>
    /\ UNCHANGED <<registryVars, loopLocals, envVars>>
    /\ UNCHANGED notMon

\* Line 145: the awaited loop task has ended; lines 150-160 run up to the
\* gather or the return.
StopMonitoringAwaited ==
    /\ stop_frame.pc = "loop_done"
    /\ recovery' = CancelTracked
    /\ IF crash_cdp_event_tasks # {}
       THEN /\ stop_frame' = StopFrame("gather", crash_cdp_event_tasks,
                                       stop_frame.log \o <<"cancel_tasks", "await_tasks">>)
            /\ UNCHANGED <<crash_cdp_event_tasks, sessions_with_listeners,
                           lastStop>>
       ELSE /\ StopClears("stopped_event", stop_frame.log \o <<"cancel_tasks">>)
            /\ stop_frame' = StopIdle
    /\ UNCHANGED <<agent_focus, event_bus, loop_pc, must_cancel, fut_blocking,
                   hc, episodeStart, detected, monitoring_task, loop_tasks, listeners,
                   nextTask, finished>>
    /\ UNCHANGED <<registryVars, loopLocals, envVars>>
    /\ UNCHANGED notMon

\* Line 156: every gathered task has ended.
StopMonitoringGathered ==
    /\ stop_frame.pc = "gather"
    /\ stop_frame.gather \cap DOMAIN recovery = {}
    /\ StopClears("stopped_event", stop_frame.log)
    /\ stop_frame' = StopIdle
    /\ UNCHANGED <<agent_focus, event_bus, loop_pc, must_cancel, fut_blocking,
                   hc, episodeStart, detected, monitoring_task, loop_tasks, listeners,
                   recovery, nextTask, finished>>
    /\ UNCHANGED <<registryVars, loopLocals, envVars>>
    /\ UNCHANGED notMon

\* ------------------------------------------- NetworkRequestTracker properties
\* A Python string is the sequence of its pieces: "" is << >> and
\* "application/json; charset=utf-8" is <<"application/json", "; charset=utf-8">>.
EmptyStr == << >>

\* s.startswith(prefix)
StartsWith(s, prefix) ==
    /\ Len(s) >= Len(prefix)
    /\ SubSeq(s, 1, Len(prefix)) = prefix

\* d.get(k, default)
Get(d, k, default) == IF k \in DOMAIN d THEN d[k] ELSE default

\* event.get('type') of a requestWillBeSent payload: absent, or a tag.
ResourceTypes ==
    {None, Some("XHR"), Some("Fetch"), Some("Document"), Some("Stylesheet"),
     Some("Script"), Some("Image"), Some("Font"), Some("Media"),
     Some("Other")}

\* Values and names of response headers.
HeaderValues ==
    { EmptyStr,
      <<"application/json">>,
      <<"application/json", "; charset=utf-8">>,
      <<"text/html">>,
      <<"text/", "application/json">> }
HeaderNames == {"content-type", "Content-Type", "content-length"}

\* response.get('headers', {}): no header, or one header.
ResponseHeaders ==
    {EmptyDict} \cup
    { [n \in {name} |-> v] : name \in HeaderNames, v \in HeaderValues }

\* is_api_call with the slip of leaving Fetch out of the list.
is_api_call_NoFetch(resource_type, response_headers) ==
    \/ resource_type \in {Some("XHR")}
    \/ StartsWith(Get(response_headers, "content-type", EmptyStr),
                  <<"application/json">>)

is_api_call(resource_type, response_headers) ==
    \/ resource_type \in {Some("XHR"), Some("Fetch")}
    \/ StartsWith(Get(response_headers, "content-type", EmptyStr),
                  <<"application/json">>)

is_ui_resource(resource_type) ==
    resource_type \in {Some("Document"), Some("Stylesheet"), Some("Script"),
                       Some("Image"), Some("Font")}

\* _on_response_received stores the headers of the payload in the tracker.
TrackerResponseHeaders(headers) ==
    /\ tracker_response_headers' = headers
    /\ classified' = None
    /\ UNCHANGED tracker_resource_type
    /\ UNCHANGED correlateVars
    /\ UNCHANGED notClassify

\* The two classification properties of the tracker are read.
ClassifyTracker ==
    /\ classified' =
           Some([ is_api_call    |-> is_api_call(tracker_resource_type,
                                                 tracker_response_headers),
                  is_ui_resource |-> is_ui_resource(tracker_resource_type) ])
    /\ UNCHANGED <<tracker_resource_type, tracker_response_headers>>
    /\ UNCHANGED correlateVars
    /\ UNCHANGED notClassify

\* ------------------------------------------------------ correlation: strings
\* str.lower() of one piece, and of a string.
LowerPiece(p) ==
    CASE p = "Click"  -> "click"
      [] p = "Submit" -> "submit"
      [] p = "Data"   -> "data"
      [] p = "Save"   -> "save"
      [] p = "Form"   -> "form"
      [] p = "Search" -> "search"
      [] p = "Filter" -> "filter"
      [] p = "Image content" -> "image content"
      [] OTHER        -> p
Lower(s) == [i \in 1 .. Len(s) |-> LowerPiece(s[i])]

\* pattern in s
Contains(s, pattern) ==
    \E i \in 1 .. (Len(s) - Len(pattern) + 1) :
        SubSeq(s, i, i + Len(pattern) - 1) = pattern

\* any(pattern in s for pattern in patterns)
AnyIn(patterns, s) == \E pattern \in patterns : Contains(s, pattern)

\* The literal '/word'.
Slash(word) == <<"/", word>>

\* s.split('/')[-1]: what follows the last '/'.
RECURSIVE LastSegment(_)
LastSegment(s) ==
    IF s = << >> THEN << >>
    ELSE IF s[Len(s)] = "/" THEN << >>
    ELSE Append(LastSegment(SubSeq(s, 1, Len(s) - 1)), s[Len(s)])

\* A call returns a value, or raises.
Returned(v) == [raised |-> None, value |-> v]
Raised(e) == [raised |-> Some(e), value |-> None]

\* --------------------------------------------------- correlation: the inputs
\* functionName of a call frame.
FunctionNames ==
    { <<"handle", "Click">>, <<"on", "Submit">>, <<"fetch", "Data">>,
      <<"debounce">> }

\* A call frame with its functionName missing, null, or a name.
CallFrames ==
    {EmptyDict} \cup
    { [k \in {"functionName"} |-> v] :
          v \in {None} \cup {Some(n) : n \in FunctionNames} }

\* Call frames as the protocol sends them: functionName is a string.
ProtocolFrames == {f \in CallFrames : \A k \in DOMAIN f : f[k] # None}

FrameLists(frames) == UNION { [1 .. n -> frames] : n \in 0 .. MaxFrames }

\* initiator: None, {}, a type other than script, or a script with its
\* stack missing, null, empty, or holding call frames.
InitiatorsOver(frames) ==
    {None, Some(EmptyDict)}
    \cup { Some([k \in {"type"} |-> t]) :
               t \in {"parser", "other", "preload", "script"} }
    \cup { Some([k \in {"type", "stack"} |->
                    IF k = "type" THEN "script" ELSE st]) :
               st \in {None, Some(EmptyDict)} }
    \cup { Some([k \in {"type", "stack"} |->
                    IF k = "type" THEN "script"
                    ELSE Some([j \in {"callFrames"} |-> fl])]) :
               fl \in FrameLists(frames) }
Initiators == InitiatorsOver(CallFrames)
ProtocolInitiators == InitiatorsOver(ProtocolFrames)

\* Path segments of a URL.
UrlWords ==
    { <<"search", "?q=y">>, <<"submit">>, <<"re", "submit">>, <<"Save">>,
      <<"delete">>, <<"create">>, <<"remove">>, <<"load">>, <<"logo.png">> }
UrlBase == <<"https:", "/", "/", "x">>
RECURSIVE UrlsOfDepth(_)
UrlsOfDepth(n) ==
    IF n = 0 THEN {UrlBase}
    ELSE { u \o <<"/">> \o w : u \in UrlsOfDepth(n - 1), w \in UrlWords }
Urls == UNION { UrlsOfDepth(n) : n \in 0 .. MaxSegments }
\* The URLs of at most one path segment.
ShortUrls == UrlsOfDepth(0) \cup UrlsOfDepth(1)

\* Response headers of a tracker under correlation.
CorrelateHeaders ==
    { EmptyDict,
      [n \in {"content-type"} |-> <<"application/json">>],
      [n \in {"content-type"} |-> <<"text/html">>] }

\* ------------------------------------------------ correlation: the triggers
\* Lines 79-89 with the event-handler test placed before the
\* user-interaction test.
RECURSIVE ScanFrames_HandlerFirst(_)
ScanFrames_HandlerFirst(call_frames) ==
    IF call_frames = << >> THEN Returned(None)
    ELSE LET raw == Get(Head(call_frames), "functionName", Some(EmptyStr))
         IN  IF raw = None THEN Raised("AttributeError")
             ELSE LET function_name == Lower(raw[1])
                  IN  IF \/ Contains(function_name, <<"on", "click">>)
                         \/ Contains(function_name, <<"on", "submit">>)
                      THEN Returned(Some(<<"Event handler (">>
                                         \o function_name \o <<")">>))
                      ELSE IF AnyIn({<<"click">>, <<"submit">>, <<"change">>,
                                     <<"input">>}, function_name)
                      THEN Returned(Some(<<"User interaction (">>
                                         \o function_name \o <<")">>))
                      ELSE IF \/ Contains(function_name, <<"fetch">>)
                              \/ Contains(function_name, <<"xhr">>)
                      THEN Returned(Some(<<"AJAX call">>))
                      ELSE ScanFrames_HandlerFirst(Tail(call_frames))

\* Lines 79-89: the for loop over the call frames.  .lower() of a null
\* functionName raises AttributeError.
RECURSIVE ScanFrames(_)
ScanFrames(call_frames) ==
    IF call_frames = << >> THEN Returned(None)
    ELSE LET raw == Get(Head(call_frames), "functionName", Some(EmptyStr))
         IN  IF raw = None THEN Raised("AttributeError")
             ELSE LET function_name == Lower(raw[1])
                  IN  IF AnyIn({<<"click">>, <<"submit">>, <<"change">>,
                                <<"input">>}, function_name)
                      THEN Returned(Some(<<"User interaction (">>
                                         \o function_name \o <<")">>))
                      ELSE IF \/ Contains(function_name, <<"on", "click">>)
                              \/ Contains(function_name, <<"on", "submit">>)
                      THEN Returned(Some(<<"Event handler (">>
                                         \o function_name \o <<")">>))
                      ELSE IF \/ Contains(function_name, <<"fetch">>)
                              \/ Contains(function_name, <<"xhr">>)
                      THEN Returned(Some(<<"AJAX call">>))
                      ELSE ScanFrames(Tail(call_frames))

\* Lines 76-77: the call frames of a truthy initiator.
CallFramesOf(ini) ==
    LET stack == Get(ini, "stack", Some(EmptyDict))
    IN  IF stack # None /\ DOMAIN stack[1] # {}
        THEN Get(stack[1], "callFrames", << >>)
        ELSE << >>

\* Lines 70-94: the label the initiator gives, None when it gives none.
InitiatorTrigger(initiator) ==
    IF initiator # None /\ DOMAIN initiator[1] # {}
    THEN LET initiator_type == Get(initiator[1], "type", "")
         IN  IF initiator_type = "script"
             THEN ScanFrames(CallFramesOf(initiator[1]))
             ELSE IF initiator_type = "parser"
             THEN Returned(Some(<<"Page parsing (HTML/CSS)">>))
             ELSE IF initiator_type = "other"
             THEN Returned(Some(<<"Browser initiated">>))
             ELSE Returned(None)
    ELSE Returned(None)

\* Lines 98-103 with the data-loading patterns tested first.
UrlTrigger_LoadFirst(url) ==
    IF AnyIn({Slash("load"), Slash("get"), Slash("fetch")}, Lower(url))
    THEN Some(<<"Data loading">>)
    ELSE IF AnyIn({Slash("submit"), Slash("save"), Slash("update"),
                   Slash("delete")}, Lower(url))
    THEN Some(<<"Form", " submission">>)
    ELSE IF AnyIn({Slash("search"), Slash("query"), Slash("filter")}, Lower(url))
    THEN Some(<<"Search", "/", "Filter", " action">>)
    ELSE None

\* Lines 98-103: the label the URL of an API call gives.
UrlTrigger(url) ==
    IF AnyIn({Slash("submit"), Slash("save"), Slash("update"),
              Slash("delete")}, Lower(url))
    THEN Some(<<"Form", " submission">>)
    ELSE IF AnyIn({Slash("search"), Slash("query"), Slash("filter")}, Lower(url))
    THEN Some(<<"Search", "/", "Filter", " action">>)
    ELSE IF AnyIn({Slash("load"), Slash("get"), Slash("fetch")}, Lower(url))
    THEN Some(<<"Data loading">>)
    ELSE None

likely_ui_trigger(initiator, resource_type, response_headers, url) ==
    LET byInitiator == InitiatorTrigger(initiator)
    IN  IF byInitiator.raised # None \/ byInitiator.value # None
        THEN byInitiator
        ELSE IF is_api_call(resource_type, response_headers)
        THEN Returned(UrlTrigger(url))
        ELSE Returned(None)

\* The property likely_ui_trigger of the tracker is read.
LikelyUiTrigger ==
    /\ trigger' = Some(likely_ui_trigger(tracker_initiator, tracker_resource_type,
                                         tracker_response_headers, tracker_url))
    /\ UNCHANGED <<tracker_resource_type, tracker_response_headers, classified,
                   tracker_url, tracker_initiator, tracker_ui_section,
                   tracker_element_text, tracker_element_position, correlated>>
    /\ UNCHANGED notClassify

\* ------------------------------------------------ correlation: the sections
\* Lines 160-174 with the form group tested before the search group.
identify_interactive_elements_FormFirst(url, element_text) ==
    LET url_lower == Lower(url)
    IN  IF AnyIn({Slash("submit"), Slash("save"), Slash("create"),
                  Slash("update")}, url_lower)
        THEN [ ui_section   |-> Some(<<"Form submission area">>),
               element_text |-> Some(<<"Submit or save button">>) ]
        ELSE IF AnyIn({Slash("search"), Slash("query"), Slash("filter")}, url_lower)
        THEN [ ui_section   |-> Some(<<"Search/Filter interface">>),
               element_text |-> Some(<<"Search or filter control">>) ]
        ELSE IF AnyIn({Slash("delete"), Slash("remove")}, url_lower)
        THEN [ ui_section   |-> Some(<<"Action controls">>),
               element_text |-> Some(<<"Delete or remove button">>) ]
        ELSE IF AnyIn({Slash("load"), Slash("get"), Slash("fetch")}, url_lower)
        THEN [ ui_section   |-> Some(<<"Content loading area">>),
               element_text |-> Some(<<"Dynamic content trigger">>) ]
        ELSE [ ui_section   |-> Some(<<"Interactive element">>),
               element_text |-> element_text ]

\* _identify_interactive_elements: ui_section and element_text afterwards.
identify_interactive_elements(url, element_text) ==
    LET url_lower == Lower(url)
    IN  IF AnyIn({Slash("search"), Slash("query"), Slash("filter")}, url_lower)
        THEN [ ui_section   |-> Some(<<"Search/Filter interface">>),
               element_text |-> Some(<<"Search or filter control">>) ]
        ELSE IF AnyIn({Slash("submit"), Slash("save"), Slash("create"),
                       Slash("update")}, url_lower)
        THEN [ ui_section   |-> Some(<<"Form submission area">>),
               element_text |-> Some(<<"Submit or save button">>) ]
        ELSE IF AnyIn({Slash("delete"), Slash("remove")}, url_lower)
        THEN [ ui_section   |-> Some(<<"Action controls">>),
               element_text |-> Some(<<"Delete or remove button">>) ]
        ELSE IF AnyIn({Slash("load"), Slash("get"), Slash("fetch")}, url_lower)
        THEN [ ui_section   |-> Some(<<"Content loading area">>),
               element_text |-> Some(<<"Dynamic content trigger">>) ]
        ELSE [ ui_section   |-> Some(<<"Interactive element">>),
               element_text |-> element_text ]

\* _identify_media_elements: ui_section and element_text afterwards.
identify_media_elements(resource_type, url, ui_section, element_text) ==
    IF resource_type = Some("Image")
    THEN [ ui_section   |-> Some(<<"Image content">>),
           element_text |-> Some(<<"Image: ">> \o LastSegment(url)) ]
    ELSE IF resource_type \in {Some("Media"), Some("Other")}
    THEN [ ui_section   |-> Some(<<"Media content">>),
           element_text |-> Some(<<"Media: ">> \o LastSegment(url)) ]
    ELSE [ ui_section |-> ui_section, element_text |-> element_text ]

\* analyze_dom_context(None), lines 110-115: ui_section and element_text
\* afterwards.  Lines 118-132 need a snapshot.
analyze_dom_context(resource_type, response_headers, url, ui_section, element_text) ==
    IF is_api_call(resource_type, response_headers)
    THEN identify_interactive_elements(url, element_text)
    ELSE IF resource_type \in {Some("Image"), Some("Media")}
    THEN identify_media_elements(resource_type, url, ui_section, element_text)
    ELSE IF resource_type \in {Some("Stylesheet"), Some("Script")}
    THEN [ ui_section |-> Some(<<"Page resources">>), element_text |-> element_text ]
    ELSE [ ui_section |-> ui_section, element_text |-> element_text ]

\* tracker.analyze_dom_context(None), as _analyze_dom_correlation calls it.
AnalyzeDomContext ==
    /\ LET after == analyze_dom_context(tracker_resource_type,
                                        tracker_response_headers, tracker_url,
                                        tracker_ui_section, tracker_element_text)
       IN  /\ tracker_ui_section' = after.ui_section
           /\ tracker_element_text' = after.element_text
    /\ correlated' = Some([ op           |-> "analyze_dom_context",
                            viewport     |-> None,
                            ui_section   |-> tracker_ui_section,
                            element_text |-> tracker_element_text ])
    /\ UNCHANGED <<tracker_resource_type, tracker_response_headers, classified,
                   tracker_url, tracker_initiator, tracker_element_position,
                   trigger>>
    /\ UNCHANGED notClassify

\* ------------------------------------------------ correlation: the position
\* Viewports width x height, and the coordinates of an element.
Viewports == {<<1280, 720>>, <<1280, 360>>, <<1000, 600>>}
Xs == {0 - 100, 0, 100, 199, 200, 255, 256, 640, 800, 801, 1024, 1025,
       1080, 1081, 1200}
Ys == {0 - 50, 0, 50, 99, 100, 107, 108, 180, 200, 215, 216, 230, 252, 253,
       260, 261, 350, 420, 421, 490, 500, 501, 504, 505, 600, 620, 621, 680}

\* element_position: None, {}, or a dict with x and y, or with one of them
\* or neither beside its width.
ElementPositions ==
    {None, Some(EmptyDict)}
    \cup { Some([k \in {"x", "y"} |-> IF k = "x" THEN x ELSE y]) :
               x \in Xs, y \in Ys }
    \cup { Some([k \in {"x", "width"} |-> IF k = "x" THEN x ELSE 100]) : x \in Xs }
    \cup { Some([k \in {"y", "width"} |-> IF k = "y" THEN y ELSE 100]) : y \in Ys }
    \cup { Some([k \in {"width"} |-> 100]) }

\* The products n * 0.t of the viewports whose value in double precision is
\* below the exact product: 720 * 0.7 is 503.99999999999994 and 360 * 0.7 is
\* 251.99999999999997.  The other products of the viewports are exact.
ProductBelowExact == {<<720, 7>>, <<360, 7>>}

\* v < n * 0.t and v > n * 0.t for integers v and n, in double precision.
LessThanTenths(v, n, t) == 10 * v < t * n
GreaterThanTenths(v, n, t) ==
    \/ 10 * v > t * n
    \/ 10 * v = t * n /\ <<n, t>> \in ProductBelowExact

\* identify_ui_section_by_position with < in place of > in the footer test.
identify_ui_section_by_position_FooterSlip(element_position, ui_section, viewport_width, viewport_height) ==
    IF element_position = None \/ DOMAIN element_position[1] = {}
    THEN ui_section
    ELSE LET x == Get(element_position[1], "x", 0)
             y == Get(element_position[1], "y", 0)
         IN  IF y < 100
             THEN IF LessThanTenths(x, viewport_width, 2)
                  THEN Some(<<"Header - Left (Logo/Menu)">>)
                  ELSE IF GreaterThanTenths(x, viewport_width, 8)
                  THEN Some(<<"Header - Right (User/Actions)">>)
                  ELSE Some(<<"Header - Center (Navigation)">>)
             ELSE IF x < 200
             THEN Some(<<"Sidebar - Left (Navigation/Menu)">>)
             ELSE IF x > viewport_width - 200
             THEN Some(<<"Sidebar - Right (Info/Actions)">>)
             ELSE IF y < viewport_height - 100
             THEN Some(<<"Footer">>)
             ELSE IF LessThanTenths(y, viewport_height, 3)
             THEN Some(<<"Main content - Top">>)
             ELSE IF GreaterThanTenths(y, viewport_height, 7)
             THEN Some(<<"Main content - Bottom">>)
             ELSE Some(<<"Main content - Center">>)

\* identify_ui_section_by_position: ui_section afterwards.
identify_ui_section_by_position(element_position, ui_section, viewport_width, viewport_height) ==
    IF element_position = None \/ DOMAIN element_position[1] = {}
    THEN ui_section
    ELSE LET x == Get(element_position[1], "x", 0)
             y == Get(element_position[1], "y", 0)
         IN  IF y < 100
             THEN IF LessThanTenths(x, viewport_width, 2)
                  THEN Some(<<"Header - Left (Logo/Menu)">>)
                  ELSE IF GreaterThanTenths(x, viewport_width, 8)
                  THEN Some(<<"Header - Right (User/Actions)">>)
                  ELSE Some(<<"Header - Center (Navigation)">>)
             ELSE IF x < 200
             THEN Some(<<"Sidebar - Left (Navigation/Menu)">>)
             ELSE IF x > viewport_width - 200
             THEN Some(<<"Sidebar - Right (Info/Actions)">>)
             ELSE IF y > viewport_height - 100
             THEN Some(<<"Footer">>)
             ELSE IF LessThanTenths(y, viewport_height, 3)
             THEN Some(<<"Main content - Top">>)
             ELSE IF GreaterThanTenths(y, viewport_height, 7)
             THEN Some(<<"Main content - Bottom">>)
             ELSE Some(<<"Main content - Center">>)

\* tracker.identify_ui_section_by_position(viewport_width, viewport_height)
IdentifyUiSectionByPosition(viewport) ==
    /\ tracker_ui_section' =
           identify_ui_section_by_position(tracker_element_position,
                                           tracker_ui_section,
                                           viewport[1], viewport[2])
    /\ correlated' = Some([ op           |-> "identify_ui_section_by_position",
                            viewport     |-> Some(viewport),
                            ui_section   |-> tracker_ui_section,
                            element_text |-> tracker_element_text ])
    /\ UNCHANGED <<tracker_resource_type, tracker_response_headers, classified,
                   tracker_url, tracker_initiator, tracker_element_text,
                   tracker_element_position, trigger>>
    /\ UNCHANGED notClassify

\* ----------------------------------------------------------- the query API
\* What the correlation has left in a completed or active tracker.
QueryProfiles ==
    { [ url |-> UrlBase \o <<"/", "search", "?q=y">>,
        resource_type |-> Some("XHR"), response_headers |-> EmptyDict,
        initiator |-> None, ui_section |-> Some(<<"Search/Filter interface">>),
        response_status |-> Some(200), failed |-> FALSE ],
      [ url |-> UrlBase \o <<"/", "logo.png">>,
        resource_type |-> Some("Image"), response_headers |-> EmptyDict,
        initiator |-> Some([k \in {"type"} |-> "parser"]),
        ui_section |-> Some(<<"Image content">>),
        response_status |-> Some(200), failed |-> FALSE ],
      [ url |-> UrlBase \o <<"/", "submit">>,
        resource_type |-> Some("XHR"), response_headers |-> EmptyDict,
        initiator |-> Some([k \in {"type", "stack"} |->
                              IF k = "type" THEN "script"
                              ELSE Some([j \in {"callFrames"} |->
                                  <<[f \in {"functionName"} |->
                                        Some(<<"handle", "Click">>)]>>])]),
        ui_section |-> Some(<<"Form submission area">>),
        response_status |-> None, failed |-> TRUE ],
      [ url |-> UrlBase,
        resource_type |-> Some("Document"),
        response_headers |-> [n \in {"content-type"} |-> <<"application/json">>],
        initiator |-> None, ui_section |-> None,
        response_status |-> Some(404), failed |-> FALSE ] }

\* A tracker with the fields the queries read.
QueryTracker(request_id, start_time, end_time, p) ==
    [ request_id       |-> request_id,
      uid              |-> request_id,
      start_time       |-> start_time,
      end_time         |-> end_time,
      response_status  |-> p.response_status,
      failed           |-> p.failed,
      failure_reason   |-> IF p.failed THEN Some("net::ERR_FAILED") ELSE None,
      response_size    |-> None,
      url              |-> p.url,
      resource_type    |-> p.resource_type,
      response_headers |-> p.response_headers,
      initiator        |-> p.initiator,
      ui_section       |-> p.ui_section ]

\* The properties of a tracker with these fields.
TriggerOf(req) ==
    likely_ui_trigger(req.initiator, req.resource_type, req.response_headers,
                      req.url).value
IsApiCall(req) == is_api_call(req.resource_type, req.response_headers)

Min2(a, b) == IF a < b THEN a ELSE b

\* [req.to_dict() for req in reqs]
ToDicts(reqs) == [i \in 1 .. Len(reqs) |-> to_dict(reqs[i])]
\* [req.to_dict() for req in filtered[-limit:]]
LastDicts(filtered, limit) == ToDicts(PySliceFrom(filtered, 0 - limit))

\* The values of a dict as a list, in the order of the keys.
RECURSIVE ValuesOf(_)
ValuesOf(d) ==
    IF DOMAIN d = {} THEN << >>
    ELSE LET k == CHOOSE x \in DOMAIN d : \A y \in DOMAIN d : x <= y
         IN  <<d[k]>> \o ValuesOf(DictDel(d, k))

StatusCodes == {200, 404}
TriggerPatterns == {<<"Click">>, <<"Search">>, <<"Data loading">>}
SectionPatterns == {<<"Image content">>, <<"Footer">>}
UserPatterns ==
    {<<"click">>, <<"submit">>, <<"change">>, <<"input">>,
     <<"form", " submission">>, <<"search">>, <<"filter">>}
ActionPatterns == {<<"click">>, <<"submit">>, <<"change">>, <<"input">>, <<"form">>}

\* What a query leaves alone: the buffers and everything else but ret.
QueryFrame ==
    /\ UNCHANGED <<max_stored_requests, active_requests, completed_requests,
                   net_cdp_event_tasks, loop_ready, cleanup_pc, now, nextUid,
                   stored, clearedAt, sentHandled>>
    /\ UNCHANGED notTracker

GetActiveRequests ==
    /\ lastOp' = Op("get_active_requests", 0, TRUE)
    /\ QueryFrame
    /\ ret' =
         ToDicts(ValuesOf(active_requests))

GetApiRequests(limit) ==
    /\ lastOp' = Op("get_api_requests", limit, TRUE)
    /\ QueryFrame
    /\ ret' =
         LastDicts(SelectSeq(completed_requests, IsApiCall), limit)

GetUiRequests(limit) ==
    LET IsUi(req) == is_ui_resource(req.resource_type)
    IN  /\ lastOp' = Op("get_ui_requests", limit, TRUE)
        /\ QueryFrame
        /\ ret' =
             LastDicts(SelectSeq(completed_requests, IsUi), limit)

GetFailedRequests(limit) ==
    LET Failed(req) == req.failed
    IN  /\ lastOp' = Op("get_failed_requests", limit, TRUE)
        /\ QueryFrame
        /\ ret' =
             LastDicts(SelectSeq(completed_requests, Failed), limit)

GetRequestsByStatus(status_code, limit) ==
    LET HasStatus(req) == req.response_status = Some(status_code)
    IN  /\ lastOp' = Op("get_requests_by_status", limit, TRUE)
        /\ QueryFrame
        /\ ret' =
             LastDicts(SelectSeq(completed_requests, HasStatus), limit)

GetRequestsSummary ==
    LET Failed(req) == req.failed
        total_requests == Len(completed_requests)
        failed_requests == Len(SelectSeq(completed_requests, Failed))
    IN  /\ lastOp' = Op("get_requests_summary", 0, TRUE)
        /\ QueryFrame
        /\ ret' =
             [ total_completed |-> total_requests,
              api_requests    |-> Len(SelectSeq(completed_requests, IsApiCall)),
              failed_requests |-> failed_requests,
              active_requests |-> Cardinality(DOMAIN active_requests),
              \* the success rate as the fraction succeeded / total
              success_rate    |-> IF total_requests > 0
                                  THEN <<total_requests - failed_requests,
                                         total_requests>>
                                  ELSE <<0, 1>> ]

GetRequestsByTrigger(trigger_pattern, limit) ==
    LET Hit(req) == /\ TriggerOf(req) # None /\ TriggerOf(req)[1] # EmptyStr
                    /\ Contains(Lower(TriggerOf(req)[1]), Lower(trigger_pattern))
    IN  /\ lastOp' = Op("get_requests_by_trigger", limit, TRUE)
        /\ QueryFrame
        /\ ret' =
             LastDicts(SelectSeq(completed_requests, Hit), limit)

GetUserTriggeredRequests(limit) ==
    LET Hit(req) == /\ TriggerOf(req) # None /\ TriggerOf(req)[1] # EmptyStr
                    /\ AnyIn(UserPatterns, Lower(TriggerOf(req)[1]))
    IN  /\ lastOp' = Op("get_user_triggered_requests", limit, TRUE)
        /\ QueryFrame
        /\ ret' =
             LastDicts(SelectSeq(completed_requests, Hit), limit)

GetRequestsByUiSection(section_pattern, limit) ==
    LET Hit(req) == /\ req.ui_section # None /\ req.ui_section[1] # EmptyStr
                    /\ Contains(Lower(req.ui_section[1]), Lower(section_pattern))
    IN  /\ lastOp' = Op("get_requests_by_ui_section", limit, TRUE)
        /\ QueryFrame
        /\ ret' =
             LastDicts(SelectSeq(completed_requests, Hit), limit)

GetUiSectionSummary ==
    LET SectionOf(req) == IF req.ui_section # None /\ req.ui_section[1] # EmptyStr
                          THEN req.ui_section[1] ELSE <<"Unknown">>
        sections == {SectionOf(completed_requests[i]) :
                        i \in 1 .. Len(completed_requests)}
        section_counts ==
            [sec \in sections |->
                Cardinality({i \in 1 .. Len(completed_requests) :
                                SectionOf(completed_requests[i]) = sec})]
        \* max(section_counts.items(), key=count): the first of the most
        \* frequent sections in the order of insertion
        First(sec) == CHOOSE i \in 1 .. Len(completed_requests) :
                         /\ SectionOf(completed_requests[i]) = sec
                         /\ \A j \in 1 .. (i - 1) :
                                SectionOf(completed_requests[j]) # sec
        most == IF sections = {} THEN None
                ELSE LET top == CHOOSE sec \in sections :
                                    \A o \in sections :
                                        \/ section_counts[o] < section_counts[sec]
                                        \/ /\ section_counts[o] = section_counts[sec]
                                           /\ First(sec) <= First(o)
                     IN  Some(<<top, section_counts[top]>>)
    IN  /\ lastOp' = Op("get_ui_section_summary", 0, TRUE)
        /\ QueryFrame
        /\ ret' =
             [ total_sections      |-> Cardinality(sections),
              section_breakdown   |-> section_counts,
              most_active_section |-> most ]

AnalyzeRecentUserAction(seconds_back) ==
    LET cutoff_time == now - seconds_back
        Recent(req) == req.start_time >= cutoff_time
        recent_requests == SelectSeq(completed_requests, Recent)
        UserTriggered(req) ==
            /\ TriggerOf(req) # None /\ TriggerOf(req)[1] # EmptyStr
            /\ AnyIn(ActionPatterns, Lower(TriggerOf(req)[1]))
        Failed(req) == req.failed
        user_triggered == SelectSeq(recent_requests, UserTriggered)
        api_calls == SelectSeq(recent_requests, IsApiCall)
        last_user == PySliceFrom(user_triggered, 0 - 5)
        last_api == PySliceFrom(api_calls, 0 - 5)
    IN  /\ lastOp' = Op("analyze_recent_user_action", seconds_back, TRUE)
        /\ QueryFrame
        /\ ret' =
             [ time_window_seconds     |-> seconds_back,
              total_requests          |-> Len(recent_requests),
              user_triggered_requests |-> Len(user_triggered),
              api_calls               |-> Len(api_calls),
              failed_requests         |-> Len(SelectSeq(recent_requests, Failed)),
              recent_user_actions     |->
                  [i \in 1 .. Len(last_user) |->
                      [ url |-> last_user[i].url,
                        trigger |-> TriggerOf(last_user[i]),
                        status |-> last_user[i].response_status,
                        duration |-> duration(last_user[i]) ]],
              recent_api_calls        |->
                  [i \in 1 .. Len(last_api) |->
                      [ url |-> last_api[i].url,
                        status |-> last_api[i].response_status,
                        trigger |-> TriggerOf(last_api[i]) ]] ]

\* ------------------------------------------------------------ specifications
TrackerInit ==
    /\ active_requests = EmptyDict
    /\ completed_requests = << >>
    /\ net_cdp_event_tasks = {}
    /\ loop_ready = << >>
    /\ cleanup_pc = "idle"
    /\ now = 1
    /\ nextUid = 1
    /\ stored = << >>
    /\ clearedAt = 0
    /\ sentHandled = [r \in RequestIds |-> 0]
    /\ lastOp = Op("init", 0, TRUE)
    /\ ret = None

AttachInit ==
    /\ cdp_session_pool = EmptyDict
    /\ nextSid = 1
    /\ listeners = [w \in Watchdogs |-> [sid \in SessionIds |-> [k \in Kinds(w) |-> 0]]]
    /\ network_enabled = [sid \in SessionIds |-> 0]
    /\ sessions_with_listeners = [w \in Watchdogs |-> {}]
    /\ calls = EmptyDict
    /\ monitoring_task = "none"
    /\ loop_tasks = 0
    /\ crash_cdp_event_tasks = {}
    /\ attachStarted = 0
    /\ attachReturned = [w \in Watchdogs |-> [t \in Targets |-> 0]]
    /\ lastFire = None

\* NetworkRequestTracker.__init__ (lines 28-45): no initiator and no DOM
\* correlation yet; the model's tracker has the empty URL.
CorrelateInit ==
    /\ tracker_url = EmptyStr
    /\ tracker_initiator = None
    /\ tracker_ui_section = None
    /\ tracker_element_text = None
    /\ tracker_element_position = None
    /\ trigger = None
    /\ correlated = None

\* NetworkRequestTracker.__init__: no response headers yet.
ClassifyInit ==
    /\ tracker_resource_type = None
    /\ tracker_response_headers = EmptyDict
    /\ classified = None
    /\ CorrelateInit

\* CrashWatchdog and BrowserSession after construction: no loop task, a
\* live browser process, no focus.
MonInit ==
    /\ proc = "running"
    /\ agent_focus = None
    /\ event_bus = << >>
    /\ disconnected = {}
    /\ start_tasks = 0
    /\ loop_pc = "none"
    /\ must_cancel = FALSE
    /\ fut_blocking = FALSE
    /\ hc_cdp_session = None
    /\ hc_pages = {}
    /\ evict_iter = None
    /\ loop_stop = StopIdle
    /\ stop_frame = StopIdle
    /\ recovery = EmptyDict
    /\ nextTask = 1
    /\ connected = 0
    /\ hc = HcIdle
    /\ episodeStart = 0
    /\ detected = FALSE
    /\ lastStop = None
    /\ finished = None

\* The request tracker under every configured capacity.
Init ==
    /\ max_stored_requests \in 0 .. MaxCap
    /\ TrackerInit
    /\ AttachInit
    /\ ClassifyInit
    /\ MonInit

Next ==
    \/ \E r \in RequestIds : RequestWillBeSentEvent(r)
    \/ OnRequestWillBeSent
    \/ \E r \in RequestIds, status \in Statuses : OnResponseReceived(r, status)
    \/ \E r \in RequestIds, errorText \in ErrorTexts : OnLoadingFailed(r, errorText)
    \/ \E r \in RequestIds, len \in DataLengths : OnLoadingFinished(r, len)
    \/ \E limit \in 0 .. MaxLimit : GetRecentRequests(limit)
    \/ ClearRequestHistory
    \/ CleanupMonitoring
    \/ CleanupGathered
    \/ Tick

Spec == Init /\ [][Next]_vars

\* The watchdogs with the default configuration.
InitDefault ==
    /\ max_stored_requests = DefaultMaxStoredRequests
    /\ TrackerInit
    /\ AttachInit
    /\ ClassifyInit
    /\ MonInit

\* attach_to_target calls made one after the other: a call starts only
\* after the call before it has returned.
NextAttachSeq ==
    \/ \E t \in Targets : calls = EmptyDict /\ CrashAttachStart(t)
    \/ \E t \in Targets : calls = EmptyDict /\ NetAttachStart(t)
    \/ \E c \in DOMAIN calls, ok \in BOOLEAN : CrashAttachAcquired(c, ok)
    \/ \E c \in DOMAIN calls, ok \in BOOLEAN : CrashAttachGotTargets(c, ok)
    \/ \E c \in DOMAIN calls, ok \in BOOLEAN : NetAttachAcquired(c, ok)
    \/ \E c \in DOMAIN calls, ok \in BOOLEAN : NetAttachEnabled(c, ok)
    \/ \E c \in DOMAIN calls, ok \in BOOLEAN : NetAttachGotTargets(c, ok)
    \/ \E w \in Watchdogs, t \in Targets :
          \E k \in Kinds(w) : DeliverNotification(w, t, k)

SpecAttachSeq == InitDefault /\ [][NextAttachSeq]_vars

\* The same with BrowserStoppedEvent handled by both watchdogs.
NextAttachStop ==
    \/ NextAttachSeq
    \/ StopMonitoring
    \/ CleanupMonitoring

SpecAttachStop == InitDefault /\ [][NextAttachStop]_vars

\* attach_to_target calls running concurrently: a call may start while others
\* are suspended at an await, and the suspended calls resume in any order.
\* No notification is delivered meanwhile.
NextAttachConc ==
    \/ \E t \in Targets : CrashAttachStart(t)
    \/ \E t \in Targets : NetAttachStart(t)
    \/ \E c \in DOMAIN calls, ok \in BOOLEAN : CrashAttachAcquired(c, ok)
    \/ \E c \in DOMAIN calls, ok \in BOOLEAN : CrashAttachGotTargets(c, ok)
    \/ \E c \in DOMAIN calls, ok \in BOOLEAN : NetAttachAcquired(c, ok)
    \/ \E c \in DOMAIN calls, ok \in BOOLEAN : NetAttachEnabled(c, ok)
    \/ \E c \in DOMAIN calls, ok \in BOOLEAN : NetAttachGotTargets(c, ok)

SpecAttachConc == InitDefault /\ [][NextAttachConc]_vars

\* A tracker of every resource type, given response headers and classified.
InitClassify ==
    /\ max_stored_requests = DefaultMaxStoredRequests
    /\ TrackerInit
    /\ AttachInit
    /\ tracker_resource_type \in ResourceTypes
    /\ tracker_response_headers = EmptyDict
    /\ classified = None
    /\ CorrelateInit
    /\ MonInit

NextClassify ==
    \/ \E headers \in ResponseHeaders : TrackerResponseHeaders(headers)
    \/ ClassifyTracker

SpecClassify == InitClassify /\ [][NextClassify]_vars

\* A tracker as _on_request_will_be_sent builds it (url, resource type,
\* initiator), with the headers of its response, or with the geometry of
\* its element bound, on which the correlation is run.
InitCorrelate ==
    /\ max_stored_requests = DefaultMaxStoredRequests
    /\ TrackerInit
    /\ AttachInit
    /\ MonInit
    /\ classified = None
    /\ trigger = None
    /\ correlated = None
    /\ \/ /\ tracker_url \in ShortUrls
          /\ tracker_resource_type \in ResourceTypes
          /\ tracker_response_headers \in CorrelateHeaders
          /\ tracker_initiator \in Initiators
          /\ tracker_ui_section = None
          /\ tracker_element_text = None
          /\ tracker_element_position = None
       \/ /\ tracker_url \in Urls
          /\ tracker_resource_type \in ResourceTypes
          /\ tracker_response_headers \in CorrelateHeaders
          /\ tracker_initiator = None
          /\ \/ tracker_ui_section = None /\ tracker_element_text = None
             \/ /\ tracker_ui_section = Some(<<"Sidebar - Left (Navigation/Menu)">>)
                /\ tracker_element_text = Some(<<"Menu">>)
          /\ tracker_element_position = None
       \/ /\ tracker_url = UrlBase
          /\ tracker_resource_type = None
          /\ tracker_response_headers = EmptyDict
          /\ tracker_initiator = None
          /\ tracker_ui_section \in {None, Some(<<"Interactive element">>)}
          /\ tracker_element_text = None
          /\ tracker_element_position \in ElementPositions
       \/ /\ tracker_url \in ShortUrls
          /\ tracker_resource_type \in {Some("XHR"), Some("Image")}
          /\ tracker_response_headers = EmptyDict
          /\ tracker_initiator = None
          /\ tracker_ui_section = None
          /\ tracker_element_text = None
          /\ tracker_element_position \in
                 { Some([k \in {"x", "y"} |-> IF k = "x" THEN x ELSE y]) :
                       x \in {100, 640, 1200}, y \in {50, 99, 100, 200} }

NextCorrelate ==
    \/ LikelyUiTrigger
    \/ AnalyzeDomContext
    \/ \E viewport \in Viewports : IdentifyUiSectionByPosition(viewport)

SpecCorrelate == InitCorrelate /\ [][NextCorrelate]_vars

\* A watchdog that has tracked requests: completed trackers in the buffer,
\* pending ones in the active mapping, on which the query API is called.
InitQuery ==
    /\ max_stored_requests = DefaultMaxStoredRequests
    /\ AttachInit
    /\ ClassifyInit
    /\ MonInit
    /\ net_cdp_event_tasks = {}
    /\ loop_ready = << >>
    /\ cleanup_pc = "idle"
    /\ now = MaxTime
    /\ nextUid = MaxRecords + 1
    /\ \E n \in 0 .. MaxRecords :
           \E ps \in [1 .. n -> QueryProfiles] :
               /\ completed_requests =
                      [i \in 1 .. n |-> QueryTracker(i, Min2(i, MaxTime),
                                                     Some(MaxTime), ps[i])]
               /\ stored = [i \in 1 .. n |-> i]
    /\ \E ids \in SUBSET RequestIds :
           \E ps \in [ids -> QueryProfiles] :
               active_requests =
                   [r \in ids |-> QueryTracker(r, MaxTime, None,
                                               [ps[r] EXCEPT !.failed = FALSE])]
    /\ clearedAt = 0
    /\ sentHandled = [r \in RequestIds |-> 0]
    /\ lastOp = Op("init", 0, TRUE)
    /\ ret = None

NextQuery ==
    \/ \E limit \in 0 .. MaxLimit : GetRecentRequests(limit)
    \/ GetActiveRequests
    \/ \E limit \in 0 .. MaxLimit : GetApiRequests(limit)
    \/ \E limit \in 0 .. MaxLimit : GetUiRequests(limit)
    \/ \E limit \in 0 .. MaxLimit : GetFailedRequests(limit)
    \/ \E status_code \in StatusCodes, limit \in 0 .. MaxLimit :
           GetRequestsByStatus(status_code, limit)
    \/ GetRequestsSummary
    \/ \E pattern \in TriggerPatterns, limit \in 0 .. MaxLimit :
           GetRequestsByTrigger(pattern, limit)
    \/ \E limit \in 0 .. MaxLimit : GetUserTriggeredRequests(limit)
    \/ \E pattern \in SectionPatterns, limit \in 0 .. MaxLimit :
           GetRequestsByUiSection(pattern, limit)
    \/ GetUiSectionSummary
    \/ \E seconds_back \in 0 .. MaxTime : AnalyzeRecentUserAction(seconds_back)
    \/ ClearRequestHistory

SpecQuery == InitQuery /\ [][NextQuery]_vars

\* The sessions of the targets in A, numbered in ascending target order.
SidOf(A, t) == Cardinality({u \in A : u <= t})

\* The CrashWatchdog before monitoring starts: attach_to_target has returned
\* once for each target of a set (its session is pooled and carries the
\* crash listener), and the focus is absent or names a target.
InitCrash ==
    /\ max_stored_requests = DefaultMaxStoredRequests
    /\ TrackerInit
    /\ ClassifyInit
    /\ \E A \in SUBSET Targets :
          /\ Cardinality(A) <= MaxSessions
          /\ cdp_session_pool = [t \in A |-> SidOf(A, t)]
          /\ nextSid = Cardinality(A) + 1
          /\ listeners =
                 [w \in Watchdogs |-> [sid \in SessionIds |-> [k \in Kinds(w) |->
                     IF w = "crash" /\ sid <= Cardinality(A) THEN 1 ELSE 0]]]
          /\ sessions_with_listeners =
                 [w \in Watchdogs |-> IF w = "crash" THEN 1 .. Cardinality(A) ELSE {}]
          /\ attachStarted = Cardinality(A)
          /\ attachReturned =
                 [w \in Watchdogs |-> [t \in Targets |->
                     IF w = "crash" /\ t \in A THEN 1 ELSE 0]]
    /\ network_enabled = [sid \in SessionIds |-> 0]
    /\ calls = EmptyDict
    /\ monitoring_task = "none"
    /\ loop_tasks = 0
    /\ crash_cdp_event_tasks = {}
    /\ lastFire = None
    /\ proc = "running"
    /\ agent_focus \in {None} \cup {Some(Some(t)) : t \in Targets}
    /\ event_bus = << >>
    /\ disconnected = {}
    /\ start_tasks = 0
    /\ loop_pc = "none"
    /\ must_cancel = FALSE
    /\ fut_blocking = FALSE
    /\ hc_cdp_session = None
    /\ hc_pages = {}
    /\ evict_iter = None
    /\ loop_stop = StopIdle
    /\ stop_frame = StopIdle
    /\ recovery = EmptyDict
    /\ nextTask = 1
    /\ connected = 0
    /\ hc = HcIdle
    /\ episodeStart = 0
    /\ detected = FALSE
    /\ lastStop = None
    /\ finished = None

NextCrash ==
    \/ \E status \in DeadStatuses : ProcessDies(status)
    \/ \E t \in Targets : SwitchFocus(t)
    \/ connected < MaxCrashConnected /\ BrowserConnectedEvent
    \/ StartMonitoring
    \/ \E t \in Targets : nextTask <= MaxCrashSpawned /\ TargetCrashedEvent(t)
    \/ \E k \in DOMAIN recovery : RecoveryCancelled(k)
    \/ \E k \in DOMAIN recovery : RecoveryStart(k)
    \/ \E k \in DOMAIN recovery : RecoveryDisconnected(k)
    \/ \E k \in DOMAIN recovery, ok \in BOOLEAN, listed \in BOOLEAN :
          RecoveryGotTargets(k, ok, listed)
    \/ HealthCheckStarts
    \/ \E ok \in BOOLEAN : CheckAcquired(ok)
    \/ \E ok \in BOOLEAN : CheckFallback(ok)
    \/ \E ok \in BOOLEAN, pages \in SUBSET Targets : CheckGotTargets(ok, pages)
    \/ \E ok \in BOOLEAN : CheckPage(ok)
    \/ \E ok \in BOOLEAN : CheckProbed(ok)
    \/ HandlerDisconnected
    \/ EvictStep
    \/ SelfStopResumed
    \/ SelfStopGathered
    \/ MonitorCancelled
    \/ StopMonitoringStarts
    \/ StopMonitoringAwaited
    \/ StopMonitoringGathered

SpecCrash == InitCrash /\ [][NextCrash]_vars

\* Connected and stopped events in any number and order up to MaxConnected,
\* with the monitoring loop and its health checks but no target crash: no
\* recovery task is ever tracked, so no _stop_monitoring waits in gather.
NextMonitor ==
    \/ \E status \in DeadStatuses : ProcessDies(status)
    \/ BrowserConnectedEvent
    \/ StartMonitoring
    \/ HealthCheckStarts
    \/ \E ok \in BOOLEAN : CheckAcquired(ok)
    \/ \E ok \in BOOLEAN : CheckFallback(ok)
    \/ \E ok \in BOOLEAN, pages \in SUBSET Targets : CheckGotTargets(ok, pages)
    \/ \E ok \in BOOLEAN : CheckPage(ok)
    \/ \E ok \in BOOLEAN : CheckProbed(ok)
    \/ HandlerDisconnected
    \/ EvictStep
    \/ SelfStopResumed
    \/ MonitorCancelled
    \/ StopMonitoringStarts
    \/ StopMonitoringAwaited

SpecMonitor == InitCrash /\ [][NextMonitor]_vars

\* Stopped events and target crashes in any order, up to MaxCrashTasks
\* recovery tasks, with a monitoring loop that is started and cancelled but
\* runs no health check.
NextStop ==
    \/ BrowserConnectedEvent
    \/ StartMonitoring
    \/ \E t \in Targets : TargetCrashedEvent(t)
    \/ \E k \in DOMAIN recovery : RecoveryCancelled(k)
    \/ \E k \in DOMAIN recovery : RecoveryStart(k)
    \/ \E k \in DOMAIN recovery : RecoveryDisconnected(k)
    \/ \E k \in DOMAIN recovery, ok \in BOOLEAN, listed \in BOOLEAN :
          RecoveryGotTargets(k, ok, listed)
    \/ MonitorCancelled
    \/ StopMonitoringStarts
    \/ StopMonitoringAwaited
    \/ StopMonitoringGathered

SpecStop == InitCrash /\ [][NextStop]_vars

\* Fair scheduling of the loop task: a sleep that has ended and a
\* disconnect() that has completed resume the task.
SpecCrashFair ==
    /\ SpecCrash
    /\ WF_vars(HealthCheckStarts)
    /\ WF_vars(HandlerDisconnected)

\* ------------------------------------------------------------------- claims
Min(a, b) == IF a < b THEN a ELSE b
Last(seq) == seq[Len(seq)]
Uids(seq) == [i \in 1 .. Len(seq) |-> seq[i].uid]
Retained == Cardinality(DOMAIN active_requests) + Len(completed_requests)
TerminalOps == {"loading_failed", "loading_finished"}
LookupOps == TerminalOps \cup {"response_received"}

\* C1: for every configured capacity N >= 0 the completed buffer never holds
\* more than N records.
C1_BufferWithinCapacity ==
    Len(completed_requests) <= max_stored_requests

\* C2: after k records were stored (since the buffer was last cleared) with
\* capacity N, the buffer is exactly the last min(k, N) stored records, in
\* the order they were stored.
C2_BufferIsLastStored ==
    LET k == Len(stored) - clearedAt
        m == Min(k, max_stored_requests)
    IN  Uids(completed_requests) = SubSeq(stored, Len(stored) - m + 1, Len(stored))

\* C3: the number of records the tracker retains, active mapping plus
\* completed buffer, stays within the bound the configuration sets (the
\* capacity max_stored_requests is the only configured limit), whether or
\* not terminal notifications arrive.  Stated for N >= 1, where the
\* completed buffer itself keeps to N.
C3_RetainedWithinConfiguredBound ==
    max_stored_requests >= 1 => Retained <= max_stored_requests

\* C4: when loading-finished(r) is handled for a request id r whose only
\* request-sent notification was handled before and whose record is still
\* active, then r's record is in the completed buffer exactly once, r is no
\* key of the active mapping, and the record has failed = false, an end time
\* and duration = end time - start time.
C4_SentThenFinished ==
    (lastOp.op = "loading_finished" /\ lastOp.hit /\ sentHandled[lastOp.id] = 1)
    => LET r  == lastOp.id
           at == {i \in 1 .. Len(completed_requests) :
                      completed_requests[i].request_id = r}
       IN  /\ Cardinality(at) = 1
           /\ r \notin DOMAIN active_requests
           /\ \A i \in at :
                 LET t == completed_requests[i]
                 IN  /\ t.failed = FALSE
                     /\ t.end_time # None
                     /\ duration(t) = Some(t.end_time[1] - t.start_time)
                     /\ to_dict(t).duration = duration(t)

\* C4 witness: a first-time request finished one clock reading after it was
\* sent.
C4_Witness ==
    /\ lastOp.op = "loading_finished"
    /\ lastOp.hit
    /\ sentHandled[lastOp.id] = 1
    /\ completed_requests # << >>
    /\ Last(completed_requests).request_id = lastOp.id
    /\ duration(Last(completed_requests)) = Some(1)

\* C5: when loading-failed(r) is handled for an active request id r, with or
\* without an errorText field in the payload, r's record in the completed
\* buffer has failed = true, a non-empty failure reason and an end time, and
\* r is no key of the active mapping.
C5_SentThenFailed ==
    (lastOp.op = "loading_failed" /\ lastOp.hit)
    => /\ completed_requests # << >>
       /\ LET t == Last(completed_requests)
          IN  /\ t.request_id = lastOp.id
              /\ t.failed = TRUE
              /\ t.failure_reason # None
              /\ t.failure_reason # Some("")
              /\ t.end_time # None
       /\ lastOp.id \notin DOMAIN active_requests

\* C6: a response-received, loading-failed or loading-finished notification
\* whose request id is no key of the active mapping leaves the active
\* mapping and the completed buffer, every stored record's fields included,
\* unchanged.
C6_UnknownIdIsNoOp ==
    [][ ( /\ lastOp'.op \in LookupOps
          /\ lastOp'.id \notin DOMAIN active_requests )
        => UNCHANGED <<active_requests, completed_requests>> ]_vars

\* C6 witness: a notification for an id that was never sent has been
\* handled while both collections hold records.
C6_Witness ==
    /\ lastOp.op \in LookupOps
    /\ ~lastOp.hit
    /\ sentHandled[lastOp.id] = 0
    /\ active_requests # EmptyDict
    /\ completed_requests # << >>

C8_RecentIsLastLimit ==
    lastOp.op = "get_recent_requests"
    => LET n == Len(completed_requests)
           m == Min(lastOp.id, n)
       IN  ret = [i \in 1 .. m |-> to_dict(completed_requests[n - m + i])]

\* C9: when attach_to_target calls are made one after the other, every
\* listener kind is registered at most once on a session and Network.enable
\* completes at most once for it, so a notification runs at most one
\* handler; and once two calls for a target have returned and the session is
\* recorded as having listeners, each kind is registered exactly once (for
\* the NetworkWatchdog with exactly one completed Network.enable).
C9_AttachTwiceRegistersOnce ==
    /\ \A w \in Watchdogs, sid \in SessionIds :
          \A k \in Kinds(w) : listeners[w][sid][k] <= 1
    /\ \A sid \in SessionIds : network_enabled[sid] <= 1
    /\ lastFire # None => lastFire[1].runs <= 1
    /\ \A w \in Watchdogs, t \in DOMAIN cdp_session_pool :
          ( /\ attachReturned[w][t] >= 2
            /\ cdp_session_pool[t] \in sessions_with_listeners[w] )
          => /\ \A k \in Kinds(w) : listeners[w][cdp_session_pool[t]][k] = 1
             /\ w = "network" => network_enabled[cdp_session_pool[t]] = 1

\* C9 witness: both watchdogs have attached twice to the same target and a
\* notification of that session has run its one handler.
C9_Witness ==
    \E t \in DOMAIN cdp_session_pool :
        /\ \A w \in Watchdogs :
              /\ attachReturned[w][t] >= 2
              /\ cdp_session_pool[t] \in sessions_with_listeners[w]
        /\ lastFire # None
        /\ lastFire[1].session_id = cdp_session_pool[t]
        /\ lastFire[1].runs = 1

\* C10: across attach_to_target, BrowserStoppedEvent handling and re-attach,
\* every listener kind is registered at most once on a session that stays in
\* the pool.
C10_RegisteredOncePerSessionLifetime ==
    \A t \in DOMAIN cdp_session_pool, w \in Watchdogs :
        \A k \in Kinds(w) : listeners[w][cdp_session_pool[t]][k] <= 1

\* The content types of HeaderValues that begin with application/json.
JsonContentTypes ==
    {<<"application/json">>, <<"application/json", "; charset=utf-8">>}

CheckEnds == hc.phase = "running" /\ hc'.phase \in {"ended", "raised"}
\* A health check starts in this step.
CheckBegins == hc'.phase = "running" /\ hc.phase # "running"
\* The events the health check in progress has dispatched.
CheckEvents(bus, h) ==
    {i \in (h.events_at_start + 1) .. Len(bus) : bus[i].by = <<"health_check">>}
\* The BrowserProcessCrashed events on the bus since the loop task was created.
EpisodeProcessCrashed ==
    {i \in (episodeStart + 1) .. Len(event_bus) :
        event_bus[i].error_type = "BrowserProcessCrashed"}

\* C11: when a health check finds the process status zombie or dead, then at
\* the end of that check every session that was pooled has been
\* disconnected, the pool is empty and the check has dispatched a
\* BrowserProcessCrashed event carrying the process id and status.
C11_ProcessDeathEvictsAll ==
    [][ (CheckEnds /\ hc'.dead_found)
        => /\ DOMAIN cdp_session_pool' = {}
           /\ hc'.pooled_when_found \subseteq disconnected'
           /\ \E i \in CheckEvents(event_bus', hc') :
                 event_bus'[i] = BrowserProcessCrashed(proc) ]_vars

\* C12: after a health check that found the process dead has ended, no
\* health check begins until a connected event has created a new loop task.
C12_NoCheckAfterProcessDeath ==
    [][ detected => ~CheckBegins ]_vars

\* C13: in one monitoring episode (the life of one loop task) at most one
\* BrowserProcessCrashed event is dispatched.
C13_OneProcessCrashedPerEpisode ==
    Cardinality(EpisodeProcessCrashed) <= 1

\* C14: when the probe of a health check times out or fails while the focus
\* names a target T, then at the end of that check T has no pooled session,
\* the session T had has been disconnected and is in the pool no more, and
\* the focus does not name T.
C14_ProbeFailureEvictsFocused ==
    [][ (CheckEnds /\ hc'.probe_failed /\ hc'.focus_at_failure # None)
        => /\ hc'.focus_at_failure[1] \notin DOMAIN cdp_session_pool'
           /\ hc'.session_at_failure # None
              => /\ hc'.session_at_failure[1] \notin PoolValues(cdp_session_pool')
                 /\ hc'.session_at_failure[1] \in disconnected'
           /\ ~( /\ FocusNames(agent_focus')
                 /\ FocusTarget(agent_focus') = hc'.focus_at_failure[1] ) ]_vars

\* C14 witness: a check whose probe failed has ended; the focused target had
\* a pooled session, which is disconnected, and the focus names no target.
C14_Witness ==
    /\ hc.phase = "ended"
    /\ hc.probe_failed
    /\ hc.focus_at_failure # None
    /\ hc.session_at_failure # None
    /\ hc.session_at_failure[1] \in disconnected
    /\ agent_focus = Some(None)

\* C15: a health check whose probe times out or fails dispatches exactly one
\* TargetCrash event, whose details carry the id of the focused target.
C15_ProbeFailureDispatchesTargetCrash ==
    [][ (CheckEnds /\ hc'.probe_failed /\ hc'.focus_at_failure # None)
        => Cardinality({ i \in CheckEvents(event_bus', hc') :
                           /\ event_bus'[i].error_type = "TargetCrash"
                           /\ event_bus'[i].details =
                                  [target_id |-> hc'.focus_at_failure[1]] }) = 1 ]_vars

\* C16: while monitoring is not stopped and the process is alive, a health
\* check that has failed (a probe timeout, a transport error or any other
\* exception) is followed by a later health check.
C16_LoopSurvivesFailedCheck ==
    (hc.failed /\ hc.phase \in {"running", "ended", "raised"})
    ~> \/ hc.phase = "running" /\ ~hc.failed
       \/ monitoring_task # "running"
       \/ must_cancel
       \/ proc \in DeadStatuses

\* C16 witness: a health check follows one that ended by raising out of
\* _check_browser_health, with the process alive.
C16_Witness ==
    /\ hc.phase = "raised"
    /\ hc.failed
    /\ loop_pc = "loop_except"
    /\ monitoring_task = "running"
    /\ proc = "running"

\* The events a recovery task has dispatched.
TaskEvents(bus, k) == {i \in 1 .. Len(bus) : bus[i].by = <<"recovery", k>>}
\* Task k takes a step of its own coroutine in this step.
TaskSteps(k) ==
    /\ k \in DOMAIN recovery
    /\ \/ k \notin DOMAIN recovery'
       \/ recovery'[k].pc # recovery[k].pc

\* C17: a firing of the crash listener attached for target T creates and
\* tracks a recovery task; a recovery task that has returned has removed
\* T's session from the pool and disconnected it (nothing if T had none) and
\* has dispatched exactly one event, a TargetCrash carrying T's id; and no
\* step of the task touches the pooled session of another target.
C17_RecoveryEvictsAndDispatchesOnce ==
    [][ /\ nextTask' > nextTask
           => (nextTask .. (nextTask' - 1)) \subseteq
                  (DOMAIN recovery' \cap crash_cdp_event_tasks')
        /\ (finished' # None /\ finished'[1].outcome = "returned")
           => /\ finished'[1].session # None
                 => /\ finished'[1].session[1] \notin PoolValues(cdp_session_pool')
                    /\ finished'[1].session[1] \in disconnected'
              /\ Cardinality(TaskEvents(event_bus', finished'[1].id)) = 1
              /\ \A i \in TaskEvents(event_bus', finished'[1].id) :
                    /\ event_bus'[i].error_type = "TargetCrash"
                    /\ event_bus'[i].details = [target_id |-> finished'[1].target_id]
        /\ \A k \in DOMAIN recovery :
              TaskSteps(k)
              => \A t \in DOMAIN cdp_session_pool :
                    t # recovery[k].target_id
                    => /\ t \in DOMAIN cdp_session_pool'
                       /\ cdp_session_pool'[t] = cdp_session_pool[t] ]_vars

\* C17 witness: a recovery task has returned after evicting and
\* disconnecting its target's session, with another target still pooled.
C17_Witness ==
    /\ finished # None
    /\ finished[1].outcome = "returned"
    /\ finished[1].session # None
    /\ finished[1].session[1] \in disconnected
    /\ TaskEvents(event_bus, finished[1].id) # {}
    /\ DOMAIN cdp_session_pool # {}

\* The order of _stop_monitoring's steps (lines 143, 145, 151-153, 156, 157,
\* 160).
StopOrder == <<"cancel_loop", "await_loop", "cancel_tasks", "await_tasks",
               "clear_tasks", "clear_sessions">>
StopPos(step) == CHOOSE i \in 1 .. Len(StopOrder) : StopOrder[i] = step
\* The steps of a log are steps of the routine, each at most once, in the
\* routine's order, ending with the clearing of the idempotency set.
InStopOrder(log) ==
    /\ \A i \in 1 .. Len(log) : \E j \in 1 .. Len(StopOrder) : StopOrder[j] = log[i]
    /\ \A i, j \in 1 .. Len(log) : i < j => StopPos(log[i]) < StopPos(log[j])
    /\ Len(log) > 0 /\ log[Len(log)] = "clear_sessions"

\* C18: every execution of _stop_monitoring that returns has performed its
\* steps in the order cancel loop, await loop, cancel tracked tasks, await
\* them, clear; and at its return the monitoring task is not running, no
\* task is tracked and the crash idempotency set is empty.
C18_StopOrderedAndLoopDone ==
    [][ lastStop' # lastStop
        => /\ InStopOrder(lastStop'[1].log)
           /\ monitoring_task' # "running"
           /\ crash_cdp_event_tasks' = {}
           /\ sessions_with_listeners'["crash"] = {} ]_vars

\* ------------------------------------------------------------- correlation
\* The lower-cased function name of a call frame ('' when it has none).
NameOf(frame) == Lower(Get(frame, "functionName", Some(EmptyStr))[1])
UserWords == {<<"click">>, <<"submit">>, <<"change">>, <<"input">>}
HandlerWords == {<<"on", "click">>, <<"on", "submit">>}
AjaxWords == {<<"fetch">>, <<"xhr">>}
NameMatches(name) == AnyIn(UserWords \cup HandlerWords \cup AjaxWords, name)
\* The label a matching name gives, by the precedence of the three rules.
LabelOfName(name) ==
    IF AnyIn(UserWords, name)
    THEN <<"User interaction (">> \o name \o <<")">>
    ELSE IF AnyIn(HandlerWords, name)
    THEN <<"Event handler (">> \o name \o <<")">>
    ELSE <<"AJAX call">>
\* The initiator is truthy and of the given type.
InitiatorType(initiator) ==
    IF initiator # None /\ DOMAIN initiator[1] # {}
    THEN Get(initiator[1], "type", "") ELSE ""
\* The frames of a script initiator, and the first one whose name matches.
FramesOf(initiator) ==
    IF InitiatorType(initiator) = "script" THEN CallFramesOf(initiator[1]) ELSE << >>
MatchingFrames(frames) == {i \in 1 .. Len(frames) : NameMatches(NameOf(frames[i]))}
FirstMatch(frames) ==
    CHOOSE i \in MatchingFrames(frames) : \A j \in MatchingFrames(frames) : i <= j

\* C21: with an initiator whose call frames carry function names as the
\* protocol sends them, likely_ui_trigger is decided by the initiator first:
\* for type script the first frame from the top whose (lower-cased) name
\* matches gives the label, User interaction before Event handler before
\* AJAX call; type parser gives 'Page parsing (HTML/CSS)' and type other
\* 'Browser initiated', whatever the URL and the resource type.
C21_InitiatorFirstMatchWins ==
    (trigger # None /\ tracker_initiator \in ProtocolInitiators)
    => LET frames == FramesOf(tracker_initiator)
       IN  /\ MatchingFrames(frames) # {}
              => trigger[1] = Returned(Some(LabelOfName(NameOf(frames[FirstMatch(frames)]))))
           /\ InitiatorType(tracker_initiator) = "parser"
              => trigger[1] = Returned(Some(<<"Page parsing (HTML/CSS)">>))
           /\ InitiatorType(tracker_initiator) = "other"
              => trigger[1] = Returned(Some(<<"Browser initiated">>))

\* C21 witness: a script initiator whose top frame matches nothing and
\* whose second frame is handleClick, on an API call whose URL names a
\* search, is labelled by the second frame.
C21_Witness ==
    /\ trigger = Some(Returned(Some(<<"User interaction (", "handle", "click", ")">>)))
    /\ Len(FramesOf(tracker_initiator)) = 2
    /\ ~NameMatches(NameOf(FramesOf(tracker_initiator)[1]))
    /\ tracker_resource_type = Some("XHR")
    /\ Contains(tracker_url, Slash("search"))

\* No rule of the initiator gives a label.
NoInitiatorLabel(initiator) ==
    /\ InitiatorType(initiator) \notin {"parser", "other"}
    /\ MatchingFrames(FramesOf(initiator)) = {}
FormWords == {"submit", "save", "update", "delete"}
SearchWords == {"search", "query", "filter"}
LoadWords == {"load", "get", "fetch"}
Word(w) == <<w>>
\* The label of a URL by the three groups in order, a word being looked for
\* in the lower-cased URL as the pattern Pat(word).
UrlLabel(url, Pat(_)) ==
    IF \E w \in FormWords : Contains(Lower(url), Pat(w))
    THEN Some(<<"Form", " submission">>)
    ELSE IF \E w \in SearchWords : Contains(Lower(url), Pat(w))
    THEN Some(<<"Search", "/", "Filter", " action">>)
    ELSE IF \E w \in LoadWords : Contains(Lower(url), Pat(w))
    THEN Some(<<"Data loading">>)
    ELSE None
UrlDecides == trigger # None /\ tracker_initiator \in ProtocolInitiators
                             /\ NoInitiatorLabel(tracker_initiator)

\* C22: when no initiator rule gives a label, likely_ui_trigger is the label
\* of the first group one of whose words the URL contains (submit, save,
\* update, delete; search, query, filter; load, get, fetch) if the record is
\* an API call, and absent otherwise.
C22_UrlWordDecides ==
    UrlDecides
    => trigger[1] = Returned(IF is_api_call(tracker_resource_type,
                                            tracker_response_headers)
                             THEN UrlLabel(tracker_url, Word)
                             ELSE None)

\* C22 as amended: the URL is searched, lower-cased, for the words preceded
\* by a slash: '/submit', '/save', ... .
C22_UrlSlashWordDecides ==
    UrlDecides
    => trigger[1] = Returned(IF is_api_call(tracker_resource_type,
                                            tracker_response_headers)
                             THEN UrlLabel(tracker_url, Slash)
                             ELSE None)

\* C22 witness: an XHR without initiator whose URL holds /load and /search
\* is labelled a search.
C22_Witness ==
    /\ trigger = Some(Returned(Some(<<"Search", "/", "Filter", " action">>)))
    /\ tracker_initiator = None
    /\ tracker_resource_type = Some("XHR")
    /\ Contains(tracker_url, Slash("load"))

\* The section of an API call by the first matching group of URL patterns.
SectionOfUrl(url) ==
    IF \E w \in SearchWords : Contains(Lower(url), Slash(w))
    THEN <<"Search/Filter interface">>
    ELSE IF \E w \in {"submit", "save", "create", "update"} : Contains(Lower(url), Slash(w))
    THEN <<"Form submission area">>
    ELSE IF \E w \in {"delete", "remove"} : Contains(Lower(url), Slash(w))
    THEN <<"Action controls">>
    ELSE IF \E w \in LoadWords : Contains(Lower(url), Slash(w))
    THEN <<"Content loading area">>
    ELSE <<"Interactive element">>
Analyzed == correlated # None /\ correlated[1].op = "analyze_dom_context"
IsApi == is_api_call(tracker_resource_type, tracker_response_headers)
\* What analyze_dom_context(None) gives the API calls, the images and the
\* page resources.
DefaultSections ==
    /\ IsApi => tracker_ui_section = Some(SectionOfUrl(tracker_url))
    /\ (~IsApi /\ tracker_resource_type = Some("Image"))
       => /\ tracker_ui_section = Some(<<"Image content">>)
          /\ tracker_element_text = Some(<<"Image: ">> \o LastSegment(tracker_url))
    /\ (~IsApi /\ tracker_resource_type \in {Some("Stylesheet"), Some("Script")})
       => tracker_ui_section = Some(<<"Page resources">>)
LeftUnchanged ==
    /\ tracker_ui_section = correlated[1].ui_section
    /\ tracker_element_text = correlated[1].element_text

\* C23: after analyze_dom_context(None) an API call has the section of the
\* first matching URL pattern group (else 'Interactive element'), a non-API
\* Image has 'Image content' and the text 'Image: <last path segment>', a
\* non-API Stylesheet or Script has 'Page resources', and every other
\* record has the ui_section and element_text it had before.
C23_DefaultSectionsOthersUnchanged ==
    Analyzed
    => /\ DefaultSections
       /\ (~IsApi /\ tracker_resource_type \notin
                        {Some("Image"), Some("Stylesheet"), Some("Script")})
          => LeftUnchanged

\* C23 as amended: a non-API Media record gets 'Media content' and the text
\* 'Media: <last path segment>'; the records left unchanged are the others.
C23_DefaultSectionsWithMedia ==
    Analyzed
    => /\ DefaultSections
       /\ (~IsApi /\ tracker_resource_type = Some("Media"))
          => /\ tracker_ui_section = Some(<<"Media content">>)
             /\ tracker_element_text = Some(<<"Media: ">> \o LastSegment(tracker_url))
       /\ (~IsApi /\ tracker_resource_type \notin
                        {Some("Image"), Some("Media"), Some("Stylesheet"),
                         Some("Script")})
          => LeftUnchanged

\* C23 witness: an XHR whose URL holds /submit and then /search, bound to
\* the left sidebar before, has been given the search section.
C23_Witness ==
    /\ Analyzed
    /\ correlated[1].ui_section = Some(<<"Sidebar - Left (Navigation/Menu)">>)
    /\ tracker_resource_type = Some("XHR")
    /\ Contains(tracker_url, Slash("submit"))
    /\ tracker_ui_section = Some(<<"Search/Filter interface">>)

Positioned == correlated # None /\ correlated[1].op = "identify_ui_section_by_position"
HasGeometry == tracker_element_position # None /\ DOMAIN tracker_element_position[1] # {}
\* The regions outside the main content, each by the tests that single it
\* out; IsMain is what the four leave.
IsHeader(y) == y < 100
IsLeftSidebar(x, y) == y >= 100 /\ x < 200
IsRightSidebar(x, y, w) == y >= 100 /\ x >= 200 /\ x > w - 200
IsFooter(x, y, w, h) == y >= 100 /\ x >= 200 /\ x <= w - 200 /\ y > h - 100
IsMain(x, y, w, h) == y >= 100 /\ x >= 200 /\ x <= w - 200 /\ y <= h - 100
OuterRegions(x, y, w, section) ==
    /\ (IsHeader(y) /\ 5 * x < w) => section = <<"Header - Left (Logo/Menu)">>
    /\ (IsHeader(y) /\ 5 * x > 4 * w) => section = <<"Header - Right (User/Actions)">>
    /\ (IsHeader(y) /\ 5 * x >= w /\ 5 * x <= 4 * w)
       => section = <<"Header - Center (Navigation)">>
    /\ IsLeftSidebar(x, y) => section = <<"Sidebar - Left (Navigation/Menu)">>
    /\ IsRightSidebar(x, y, w) => section = <<"Sidebar - Right (Info/Actions)">>
\* The grid with the main content split at the heights the operators name.
Grid(IsTop(_, _), IsBottom(_, _)) ==
    LET x == Get(tracker_element_position[1], "x", 0)
        y == Get(tracker_element_position[1], "y", 0)
        w == correlated[1].viewport[1][1]
        h == correlated[1].viewport[1][2]
        section == tracker_ui_section[1]
    IN  /\ tracker_ui_section # None
        /\ OuterRegions(x, y, w, section)
        /\ IsFooter(x, y, w, h) => section = <<"Footer">>
        /\ (IsMain(x, y, w, h) /\ IsTop(y, h)) => section = <<"Main content - Top">>
        /\ (IsMain(x, y, w, h) /\ IsBottom(y, h)) => section = <<"Main content - Bottom">>
        /\ (IsMain(x, y, w, h) /\ ~IsTop(y, h) /\ ~IsBottom(y, h))
           => section = <<"Main content - Center">>
TopThird(y, h) == 3 * y < h
BottomThird(y, h) == 3 * y > 2 * h
TopOfMain(y, h) == LessThanTenths(y, h, 3)
BottomOfMain(y, h) == GreaterThanTenths(y, h, 7)

\* C24: identify_ui_section_by_position gives every element with geometry
\* the region of the grid: header (left, center, right by 20% and 80% of
\* the width) for y < 100, else the left sidebar for x < 200, else the right
\* sidebar for x > width - 200, else the footer for y > height - 100, else
\* the main content by thirds of the height; without geometry ui_section
\* is left unchanged.
C24_GridWithThirds ==
    Positioned
    => IF HasGeometry THEN Grid(TopThird, BottomThird)
       ELSE tracker_ui_section = correlated[1].ui_section

\* C24 as amended: the main content is Top for y < 0.3 * height, Bottom for
\* y > 0.7 * height and Center otherwise, the products taken in double
\* precision.
C24_GridWithThreeTenths ==
    Positioned
    => IF HasGeometry THEN Grid(TopOfMain, BottomOfMain)
       ELSE tracker_ui_section = correlated[1].ui_section

\* C24 witness: the element at (640, 50) in a 1280 x 720 viewport is in the
\* center of the header.
C24_Witness ==
    /\ Positioned
    /\ correlated[1].viewport = Some(<<1280, 720>>)
    /\ tracker_element_position = Some([k \in {"x", "y"} |-> IF k = "x" THEN 640 ELSE 50])
    /\ tracker_ui_section = Some(<<"Header - Center (Navigation)">>)

\* C25: the correlation never raises: whatever the initiator (absent,
\* empty, without stack, with an empty call-frame list, with frames whose
\* function name is missing or null) and whatever the geometry, a read of
\* likely_ui_trigger returns a label or None, and analyze_dom_context and
\* identify_ui_section_by_position leave a label or None in ui_section.
C25_CorrelationNeverRaises ==
    /\ trigger # None => trigger[1].raised = None
    /\ correlated # None
       => tracker_ui_section \in {None} \cup {Some(<<l>>) : l \in
              {"Search/Filter interface", "Form submission area",
               "Action controls", "Content loading area", "Interactive element",
               "Image content", "Media content", "Page resources",
               "Header - Left (Logo/Menu)", "Header - Right (User/Actions)",
               "Header - Center (Navigation)",
               "Sidebar - Left (Navigation/Menu)",
               "Sidebar - Right (Info/Actions)", "Footer", "Main content - Top",
               "Main content - Bottom", "Main content - Center"}}

\* ---------------------------------------------------------------- queries
QueryOps ==
    {"get_recent_requests", "get_active_requests", "get_failed_requests",
     "get_api_requests", "get_ui_requests", "get_requests_by_status",
     "get_requests_by_trigger", "get_requests_by_ui_section",
     "get_user_triggered_requests", "get_requests_summary",
     "get_ui_section_summary", "analyze_recent_user_action"}

\* C26: a query leaves the active mapping and the completed buffer as they
\* were; clear_request_history empties the completed buffer and leaves the
\* active mapping as it was, and a get_recent_requests that follows it
\* returns the empty list.
C26_QueriesReadClearEmpties ==
    [][ /\ lastOp'.op \in QueryOps
           => /\ active_requests' = active_requests
              /\ completed_requests' = completed_requests
        /\ lastOp'.op = "clear_request_history"
           => /\ completed_requests' = << >>
              /\ active_requests' = active_requests
        /\ (lastOp.op = "clear_request_history" /\ lastOp'.op = "get_recent_requests")
           => ret' = << >> ]_vars

\* C26 witness: get_recent_requests has returned the empty list after a
\* clear that emptied a buffer of two trackers and left two requests active.
C26_Witness ==
    /\ lastOp.op = "get_recent_requests"
    /\ lastOp.id > 0
    /\ ret = << >>
    /\ clearedAt = 2
    /\ completed_requests = << >>
    /\ Cardinality(DOMAIN active_requests) = 2


\* C27: under every interleaving of concurrently running attach_to_target
\* calls that resolve to the same session, each listener kind is registered
\* at most once on that session, for both watchdogs.
C27_ConcurrentAttachRegistersOnce ==
    \A w \in Watchdogs, sid \in SessionIds :
        \A k \in Kinds(w) : listeners[w][sid][k] <= 1


\* C28: in every health check the probe is sent through the session of the
\* currently focused target: while the probe is in flight the session it was
\* sent through is the pooled session of the focused target, and when the
\* probe fails the session evicted is the session that was probed.
C28_ProbeThroughFocusedSession ==
    /\ ( /\ monitoring_task = "running"
         /\ loop_pc = "probe"
         /\ FocusNames(agent_focus)
         /\ FocusTarget(agent_focus) \in DOMAIN cdp_session_pool )
       => hc_cdp_session = Some(cdp_session_pool[FocusTarget(agent_focus)])
    /\ ( /\ hc.probe_failed
         /\ hc.session_at_failure # None )
       => hc_cdp_session = hc.session_at_failure


\* C29: a crash-recovery task for target T that returns clears the focused
\* pointer if and only if the pointer named T when the task ran: cleared when
\* it named T, listed by the browser or not, and unchanged when it named
\* another target.
C29_RecoveryClearsFocusIffNamesTarget ==
    [][ \A k \in DOMAIN recovery :
           ( /\ k \notin DOMAIN recovery'
             /\ finished' # None
             /\ finished'[1].id = k
             /\ finished'[1].outcome = "returned" )
           => agent_focus' =
                  IF /\ FocusNames(agent_focus)
                     /\ FocusTarget(agent_focus) = recovery[k].target_id
                  THEN Some(None)
                  ELSE agent_focus ]_vars


\* C30: for every sequence and interleaving of connected events, each
\* spawning _start_monitoring, and stopped events, at most one monitoring
\* loop task is alive at any time.
C30_AtMostOneLoopAlive ==
    /\ loop_tasks <= 1
    /\ loop_tasks = (IF monitoring_task = "running" THEN 1 ELSE 0)

\* C30 witness: two connected events have been handled and both
\* _start_monitoring tasks have run, the second finding the loop of the
\* first still in its startup sleep; one loop is alive.
C30_Witness ==
    /\ connected = 2
    /\ start_tasks = 0
    /\ lastStop = None
    /\ monitoring_task = "running"
    /\ loop_pc = "startup_sleep"
    /\ loop_tasks = 1


\* C31: while a health check is in progress, suspended at an await or not,
\* the monitoring loop is the only writer of the focused pointer: no step of
\* a crash-recovery task changes the pointer between the start and the end
\* of a health check.
C31_LoopOnlyFocusWriterDuringCheck ==
    [][ ( /\ monitoring_task = "running"
          /\ hc.phase = "running"
          /\ agent_focus' # agent_focus )
        => recovery' = recovery ]_vars


\* C32: the first health check of a loop starts from the startup sleep, and
\* every later one starts from a sleep of the interval, also when the check
\* before it ended by raising an exception.
C32_SleepBeforeEveryCheck ==
    [][ ( /\ monitoring_task = "running"
          /\ loop_pc # "acquire"
          /\ loop_pc' = "acquire" )
        => loop_pc = (IF hc.phase = "none"
                      THEN "startup_sleep" ELSE "interval_sleep") ]_vars


\* ui_section.lower(), for the labels the two analyses write.
SectionLower(label) ==
    CASE label = <<"Search/Filter interface">>
             -> <<"search", "/", "filter", " interface">>
      [] label = <<"Header - Left (Logo/Menu)">>
             -> <<"header", " - left (logo/menu)">>
      [] label = <<"Header - Right (User/Actions)">>
             -> <<"header", " - right (user/actions)">>
      [] label = <<"Header - Center (Navigation)">>
             -> <<"header", " - center (navigation)">>
      [] OTHER -> Lower(label)

\* The record is an API call to a /search URL with geometry in the top band,
\* the default analysis has given it the search section and the position
\* refinement has just run.
SearchInHeaderRefined ==
    /\ Positioned
    /\ correlated[1].ui_section = Some(<<"Search/Filter interface">>)
    /\ IsApi
    /\ Contains(Lower(tracker_url), Slash("search"))
    /\ HasGeometry
    /\ Get(tracker_element_position[1], "y", 0) < 100

\* C33: for an API record whose URL contains /search and whose geometry lies
\* in the top band, the default section analysis followed by the position
\* refinement leaves a ui_section that contains both 'header' and 'search',
\* case-insensitively.
C33_HeaderAndSearchBothNamed ==
    SearchInHeaderRefined
    => /\ tracker_ui_section # None
       /\ Contains(SectionLower(tracker_ui_section[1]), <<"header">>)
       /\ Contains(SectionLower(tracker_ui_section[1]), <<"search">>)


\* The completed records inside the window of the analysis that returned
\* last, and those of them that are XHR requests to a /search URL with the
\* trigger 'Search/Filter action'.
InWindow ==
    { i \in 1 .. Len(completed_requests) :
          completed_requests[i].start_time >= now - lastOp.id }
SearchesInWindow ==
    { i \in InWindow :
          /\ completed_requests[i].resource_type = Some("XHR")
          /\ Contains(Lower(completed_requests[i].url), Slash("search"))
          /\ TriggerOf(completed_requests[i]) =
                 Some(<<"Search", "/", "Filter", " action">>) }

\* C34: the time-windowed analysis counts exactly the completed records that
\* started at or after now minus the window; a completed XHR request to a
\* /search URL among them is counted as user-triggered and listed in
\* recent_user_actions; recent_user_actions and recent_api_calls hold at most
\* 5 records each.
C34_WindowedAnalysisCountsSearch ==
    lastOp.op = "analyze_recent_user_action"
    => /\ ret.total_requests = Cardinality(InWindow)
       /\ ret.user_triggered_requests >= Cardinality(SearchesInWindow)
       /\ \A i \in SearchesInWindow :
             \E j \in 1 .. Len(ret.recent_user_actions) :
                 ret.recent_user_actions[j].url = completed_requests[i].url
       /\ Len(ret.recent_user_actions) <= 5
       /\ Len(ret.recent_api_calls) <= 5


\* A record that is Pending: no end time, not failed, no failure reason.
Pending(t) == t.end_time = None /\ ~t.failed /\ t.failure_reason = None

\* C35: every record of the active mapping is Pending and every record of the
\* completed buffer has an end time; a response-received notification moves
\* no record between the two collections.
C35_ActivePendingCompletedTerminal ==
    /\ [] ( /\ \A r \in DOMAIN active_requests : Pending(active_requests[r])
            /\ \A i \in 1 .. Len(completed_requests) :
                  completed_requests[i].end_time # None )
    /\ [][ lastOp'.op = "response_received"
           => /\ DOMAIN active_requests' = DOMAIN active_requests
              /\ completed_requests' = completed_requests ]_vars

\* C35 witness: a response has been recorded on an active record while the
\* completed buffer holds a record that failed.
C35_Witness ==
    /\ lastOp.op = "response_received"
    /\ lastOp.hit
    /\ active_requests[lastOp.id].response_status # None
    /\ \E i \in 1 .. Len(completed_requests) : completed_requests[i].failed


\* The request-sent notification of r has been delivered to its listener and
\* its handler task has not run yet.
SentPending(r) ==
    \E i \in 1 .. Len(loop_ready) : loop_ready[i].request_id = r

\* C36: a loading-finished or loading-failed notification of r that is
\* handled after r's request-sent notification was delivered finds r's
\* record and moves it to the completed buffer, whether the request-sent
\* handler task has run by then or not: no record is left Pending in the
\* active mapping.
C36_TerminalAfterSentCompletes ==
    [][ ( /\ lastOp'.op \in TerminalOps
          /\ SentPending(lastOp'.id) )
        => /\ lastOp'.hit
           /\ lastOp'.id \notin DOMAIN active_requests' ]_vars


\* The number of records held for request id r, in the active mapping and
\* the completed buffer together.
RecordsOf(r) ==
    Cardinality({ i \in 1 .. Len(completed_requests) :
                      completed_requests[i].request_id = r })
    + (IF r \in DOMAIN active_requests THEN 1 ELSE 0)

\* C37: no two records held by the tracker share a request id: each id
\* occurs at most once across the active mapping and the completed buffer
\* together, also after a repeated request-sent notification.
C37_RequestIdsUnique ==
    \A r \in RequestIds : RecordsOf(r) <= 1


\* C38: when _stop_monitoring returns, every crash-recovery task spawned
\* before that moment has ended, also a task spawned by a crash notification
\* that fired while the routine was suspended; none is left to evict a
\* session or dispatch an event afterwards.
C38_StopLeavesNoRecoveryTask ==
    [][ ( \/ lastStop' # lastStop
          \/ stop_frame.pc # "idle" /\ stop_frame'.pc = "idle" )
        => DOMAIN recovery' = {} ]_vars


\* A step of the health check in progress, suspended in Target.getTargets or
\* in a command for a page target, takes the session of the focused target
\* out of the pool or changes the focus, and not because the browser process
\* was found dead.
CheckEvictsFocused ==
    /\ monitoring_task = "running"
    /\ hc.phase = "running"
    /\ loop_pc \in {"getTargets", "pages"}
    /\ recovery' = recovery
    /\ ~hc'.dead_found
    /\ FocusNames(agent_focus)
    /\ \/ agent_focus' # agent_focus
       \/ /\ FocusTarget(agent_focus) \in DOMAIN cdp_session_pool
          /\ FocusTarget(agent_focus) \notin DOMAIN cdp_session_pool'

\* C39: a health check evicts the session of the focused target and clears
\* the focus only if the probe timed out or failed; a failure of an earlier
\* step of the check leaves both as they were.
C39_OnlyProbeFailureEvicts ==
    [][ CheckEvictsFocused => hc'.probe_failed ]_vars


\* _stop_monitoring, run for a BrowserStoppedEvent, returns in this step.
StoppedEventHandled ==
    /\ lastStop' # None
    /\ lastStop'[1].by = "stopped_event"
    /\ \/ lastStop' # lastStop
       \/ stop_frame.pc # "idle" /\ stop_frame'.pc = "idle"

\* C40: stop wins over an earlier start: when a stopped event that followed
\* a connected event has been fully handled, no monitoring loop task is
\* alive and no _start_monitoring task is left to start one; and a
\* _start_monitoring task that runs leaves a running monitoring loop.
C40_StopWinsOverEarlierStart ==
    [][ /\ (StoppedEventHandled /\ connected >= 1)
           => /\ loop_tasks' = 0
              /\ monitoring_task' # "running"
              /\ start_tasks' = 0
        /\ start_tasks' < start_tasks => monitoring_task' = "running" ]_vars

====
